---- MODULE Spec2Model ----
(***************************************************************************)
(* Model of the xgraph graph compiler and rule-matching engine:           *)
(*   - the traffic simulator (utils/simulation.ts: runSimulation and the  *)
(*     routing-rule matchers),                                             *)
(*   - the validation engine (utils/validation.ts: validateGraph).        *)
(*                                                                         *)
(* Strings that the code inspects character by character (tags, port      *)
(* rules) are sequences of one-character strings.  A domain name is the    *)
(* sequence of its labels.  An absent optional value is the empty          *)
(* sequence (the code tests such fields for truthiness, so undefined and   *)
(* '' behave alike).                                                       *)
(***************************************************************************)
EXTENDS Integers, Sequences, FiniteSets, TLC

VARIABLES
    nodes,              \* XrayNode[] handed to the entry point
    edges,              \* XrayEdge[] handed to the entry point
    input,              \* SimulationInput
    pc,                 \* position of the running entry point
    currentNode,        \* runSimulation: id of currentNode, Undefined when none
    visited,            \* runSimulation: visited set
    path,               \* runSimulation: path
    highlightNodeIds,   \* runSimulation: highlightNodeIds
    highlightEdgeIds,   \* runSimulation: highlightEdgeIds
    result,             \* SimulationResult returned (or the exception raised)
    routing,            \* doesRoutingMatch: the RoutingData argument
    sourceInboundTag,   \* doesRoutingMatch: the sourceInboundTag argument
    matched,            \* doesRoutingMatch: value returned
    validation,         \* useValidationStore.result: the ValidationResult
                        \* stored by the validation run
    servers,            \* exportConfig: the servers argument
    exported,           \* ExportResult[] returned by exportConfig
    config,             \* the XrayConfig document handed to importXrayConfig
    createRoutingNodes, \* importXrayConfig: options.createRoutingNodes
    imported,           \* ImportResult returned by importXrayConfig
    reexported,         \* ExportResult[] of exportConfig on the imported graph
    past,               \* useHistoryStore: historyState.past
    future,             \* useHistoryStore: historyState.future
    lastSnapshot,       \* useHistoryStore: historyState._lastSnapshot
    paused,             \* useHistoryStore: historyState._paused
    selection,          \* useStore: ids of the nodes whose selected flag is set
    nextId,             \* the next id uuidv4 hands out
    ops,                \* number of editor operations performed
    timer,              \* the pending timeouts of useValidation, each with
                        \* the nodes and edges of its closure
    timerRef,           \* useValidation: timerRef.current
    effectDue,          \* useValidation: the effect of the last render is due
    version,            \* number of edits the node and edge lists have seen
    validatedVersion    \* version of the graph the stored result was computed from

vars == <<nodes, edges, input, pc, currentNode, visited, path,
          highlightNodeIds, highlightEdgeIds, result,
          routing, sourceInboundTag, matched, validation,
          servers, exported, config, createRoutingNodes, imported, reexported,
          past, future, lastSnapshot, paused, selection, nextId, ops,
          timer, timerRef, effectDue, version, validatedVersion>>

\* the state of the export / import engine
documentVars ==
    <<servers, exported, config, createRoutingNodes, imported, reexported>>

\* the state of the editor: history, selection and the validation timer
editorVars ==
    <<past, future, lastSnapshot, paused, selection, nextId, ops,
      timer, timerRef, effectDue, version, validatedVersion>>

----------------------------------------------------------------------------
(* Bounds of the model                                                     *)

MaxEdges == 2          \* free edges drawn for a simulated graph
MaxPriority == 1       \* explicit edge priorities are 1..MaxPriority and 1000
MaxPortLen == 3        \* characters of a routing port rule
MaxValEdges == 3       \* edges of a validated graph
MaxDocEdges == 2       \* free edges of an exported graph
MaxRules == 2          \* rules of a document written by hand

(* Program constants *)

DefaultPriority == 999

Undefined == 0         \* no node: getNodeById found nothing
Absent == <<>>         \* absent optional string / list

----------------------------------------------------------------------------
(* Generic sequence helpers                                                *)

Range(s) == {s[i] : i \in 1..Len(s)}

SeqsUpTo(S, n) == UNION {[1..k -> S] : k \in 0..n}

\* Array.prototype.filter with a predicate given as the set of kept values
RECURSIVE FilterSeq(_, _)
FilterSeq(s, keep) ==
    IF s = <<>> THEN <<>>
    ELSE IF Head(s) \in keep THEN <<Head(s)>> \o FilterSeq(Tail(s), keep)
         ELSE FilterSeq(Tail(s), keep)

\* String.prototype.startsWith
StartsWith(s, p) == Len(p) <= Len(s) /\ SubSeq(s, 1, Len(p)) = p

\* String.prototype.includes
Includes(s, p) ==
    \E i \in 0..(Len(s) - Len(p)) : SubSeq(s, i + 1, i + Len(p)) = p

\* String.prototype.endsWith('.' + target) on label sequences: target is a
\* proper suffix of the labels
EndsWithDot(d, t) ==
    Len(t) < Len(d) /\ SubSeq(d, Len(d) - Len(t) + 1, Len(d)) = t

\* String.prototype.split(sep) for a one-character separator
RECURSIVE SplitAcc(_, _, _)
SplitAcc(s, sep, cur) ==
    IF s = <<>> THEN <<cur>>
    ELSE IF Head(s) = sep THEN <<cur>> \o SplitAcc(Tail(s), sep, <<>>)
         ELSE SplitAcc(Tail(s), sep, Append(cur, Head(s)))

Split(s, sep) == SplitAcc(s, sep, <<>>)

----------------------------------------------------------------------------
(* Routing rule matching (simulation.ts)                                   *)

Digits == {"1", "3"}
PortChars == Digits \cup {"-", ","}
DigitVal == ("1" :> 1) @@ ("3" :> 3)

NaN == -1              \* Number(...) of a non-numeric string

RECURSIVE DecimalAcc(_, _)
DecimalAcc(s, acc) ==
    IF s = <<>> THEN acc ELSE DecimalAcc(Tail(s), 10 * acc + DigitVal[Head(s)])

\* Number(string): '' is 0, a digit string its value, anything else NaN
Number(s) ==
    IF s = <<>> THEN 0
    ELSE IF \A i \in 1..Len(s) : s[i] \in Digits THEN DecimalAcc(s, 0)
         ELSE NaN

\* MatchPortPart with the end of a range excluded
MatchPortPart_ExclusiveEnd(part, port) ==
    IF "-" \in Range(part)
    THEN LET pieces == Split(part, "-")
             start == Number(pieces[1])
             end == Number(pieces[2])
         IN start # NaN /\ end # NaN /\ port >= start /\ port < end
    ELSE Number(part) = port

\* one comma-separated part of a port rule
MatchPortPart(part, port) ==
    IF "-" \in Range(part)
    THEN LET pieces == Split(part, "-")
             start == Number(pieces[1])
             end == Number(pieces[2])
         IN start # NaN /\ end # NaN /\ port >= start /\ port <= end
    ELSE Number(part) = port

matchPortRule(rule, port) ==
    LET parts == Split(rule, ",")
    IN \E i \in 1..Len(parts) : MatchPortPart(parts[i], port)

\* String.prototype.toLowerCase on the protocol names of the model
toLowerCase(s) ==
    CASE s = "TCP" -> "tcp"
      [] s = "UDP" -> "udp"
      [] OTHER -> s

matchProtocolRule(rules, protocol) ==
    \E i \in 1..Len(rules) : toLowerCase(rules[i]) = toLowerCase(protocol)

\* The hard-coded geosite approximation table: a geosite name matches when
\* the domain holds one of the listed labels followed by a dot, or (cn) ends
\* in the label cn
GeositeLabels(geo) ==
    CASE geo = "google" -> {"google", "youtube", "gmail", "gstatic"}
      [] geo = "cn" -> {"baidu", "qq", "taobao", "alibaba"}
      [] OTHER -> {}

MatchGeosite(geo, domain) ==
    \/ \E i \in 1..(Len(domain) - 1) : domain[i] \in GeositeLabels(geo)
    \/ geo = "cn" /\ Len(domain) >= 2 /\ domain[Len(domain)] = "cn"

\* A domain rule is [kind, arg, valid]: kind is the rule's prefix (regexp:,
\* domain:, full:, geosite:, or plain for a bare string), arg the text after
\* it: a label sequence, for regexp a literal text searched in the domain,
\* and valid = FALSE a regexp: pattern that new RegExp rejects
matchDomainRule(rule, domain) ==
    CASE rule.kind = "regexp" ->
            IF rule.valid THEN Includes(domain, rule.arg) ELSE FALSE
      [] rule.kind = "domain" ->
            domain = rule.arg \/ EndsWithDot(domain, rule.arg)
      [] rule.kind = "full" -> domain = rule.arg
      [] rule.kind = "geosite" -> MatchGeosite(rule.arg[1], domain)
      [] OTHER -> domain = rule.arg \/ EndsWithDot(domain, rule.arg)

matchIpRule(rule, domain) == FALSE

\* doesRoutingMatch that compares the inboundTag predicate with the
\* inboundTag of the request instead of the tag of the current inbound
doesRoutingMatch_UsesRequestTag(r, in, srcTag) ==
    IF r.inboundTag # Absent /\ r.inboundTag # in.inboundTag THEN FALSE
    ELSE
    LET hasDomain == r.domain # <<>>
        hasIp == r.ip # <<>>
        hasPort == r.port # Absent
        hasProtocol == r.protocol # <<>>
        hasNetwork == r.network # Absent
        hasRules == hasDomain \/ hasIp \/ hasPort \/ hasProtocol \/ hasNetwork
        domainMatch ==
            \E i \in 1..Len(r.domain) : matchDomainRule(r.domain[i], in.domain)
        ipMatch == \E i \in 1..Len(r.ip) : matchIpRule(r.ip[i], in.domain)
        m1 == ~(hasDomain /\ ~domainMatch)
        m2 == ~(hasIp /\ ~ipMatch /\ ~hasDomain)
        m3 == ~(hasPort /\ ~matchPortRule(r.port, in.port))
        m4 == ~(hasProtocol /\ ~matchProtocolRule(r.protocol, in.protocol))
        m5 == ~(hasNetwork /\ r.network # <<in.protocol>>)
    IN IF ~hasRules THEN TRUE ELSE m1 /\ m2 /\ m3 /\ m4 /\ m5

doesRoutingMatch(r, in, srcTag) ==
    IF r.inboundTag # Absent /\ r.inboundTag # srcTag THEN FALSE
    ELSE
    LET hasDomain == r.domain # <<>>
        hasIp == r.ip # <<>>
        hasPort == r.port # Absent
        hasProtocol == r.protocol # <<>>
        hasNetwork == r.network # Absent
        hasRules == hasDomain \/ hasIp \/ hasPort \/ hasProtocol \/ hasNetwork
        domainMatch ==
            \E i \in 1..Len(r.domain) : matchDomainRule(r.domain[i], in.domain)
        ipMatch == \E i \in 1..Len(r.ip) : matchIpRule(r.ip[i], in.domain)
        m1 == ~(hasDomain /\ ~domainMatch)
        m2 == ~(hasIp /\ ~ipMatch /\ ~hasDomain)
        m3 == ~(hasPort /\ ~matchPortRule(r.port, in.port))
        m4 == ~(hasProtocol /\ ~matchProtocolRule(r.protocol, in.protocol))
        m5 == ~(hasNetwork /\ r.network # <<in.protocol>>)
    IN IF ~hasRules THEN TRUE ELSE m1 /\ m2 /\ m3 /\ m4 /\ m5

----------------------------------------------------------------------------
(* Simulation engine (simulation.ts)                                       *)

\* (edge.data)?.priority ?? 999 ; an absent priority is <<>>
PriorityOf(e) == IF e.priority = Absent THEN DefaultPriority ELSE e.priority[1]

\* place e behind every element whose priority is not larger (stable)
RECURSIVE InsertByPriority(_, _)
InsertByPriority(e, sorted) ==
    IF sorted = <<>> THEN <<e>>
    ELSE IF PriorityOf(Head(sorted)) <= PriorityOf(e)
         THEN <<Head(sorted)>> \o InsertByPriority(e, Tail(sorted))
         ELSE <<e>> \o sorted

\* Array.prototype.sort((a, b) => pa - pb), a stable sort
RECURSIVE SortByPriority(_, _)
SortByPriority(s, acc) ==
    IF s = <<>> THEN acc
    ELSE SortByPriority(Tail(s), InsertByPriority(Head(s), acc))

getOutgoingEdges(nodeId, es) ==
    SortByPriority(FilterSeq(es, {e \in Range(es) : e.source = nodeId}), <<>>)

\* nodes.find((n) => n.id === nodeId); Undefined when absent
HasNode(nodeId, ns) == \E i \in 1..Len(ns) : ns[i].id = nodeId

getNodeById(nodeId, ns) ==
    ns[CHOOSE i \in 1..Len(ns) :
          ns[i].id = nodeId /\ \A j \in 1..(i - 1) : ns[j].id # nodeId]

\* 'tag' in data: every node kind but the device carries a tag property
HasTagProperty(n) == n.nodeType # "device"

\* the step pushed on path for a node
Step(n, description) ==
    [nodeId |-> n.id,
     tag |-> IF HasTagProperty(n) THEN n.tag ELSE <<"name">>,
     nodeType |-> n.nodeType,
     description |-> description]

Returned(success, finalOutbound, explanation) ==
    [returned |-> TRUE, thrown |-> FALSE, success |-> success,
     finalOutbound |-> finalOutbound, explanation |-> explanation]

Thrown ==
    [returned |-> FALSE, thrown |-> TRUE, success |-> FALSE,
     finalOutbound |-> Absent, explanation |-> "none"]

\* index of the start node: first inbound whose tag is the request's
StartIndexes ==
    {i \in 1..Len(nodes) :
        nodes[i].nodeType = "inbound" /\ nodes[i].tag = input.inboundTag}

\* InboundScan that stops at the first usable edge, direct targets included
RECURSIVE InboundScan_FirstUsable(_, _, _)
InboundScan_FirstUsable(outgoing, srcTag, nextEdge) ==
    IF outgoing = <<>> THEN nextEdge
    ELSE LET edge == Head(outgoing)
         IN IF ~HasNode(edge.target, nodes)
            THEN InboundScan_FirstUsable(Tail(outgoing), srcTag, nextEdge)
            ELSE LET target == getNodeById(edge.target, nodes)
                 IN IF target.nodeType = "routing"
                    THEN IF doesRoutingMatch(target.routing, input, srcTag)
                         THEN <<edge>>
                         ELSE InboundScan_FirstUsable(Tail(outgoing), srcTag,
                                                      nextEdge)
                    ELSE <<edge>>

\* inbound branch: the edge left in nextEdge by the scan of outgoing,
\* <<>> when it stays null
RECURSIVE InboundScan(_, _, _)
InboundScan(outgoing, srcTag, nextEdge) ==
    IF outgoing = <<>> THEN nextEdge
    ELSE LET edge == Head(outgoing)
         IN IF ~HasNode(edge.target, nodes)
            THEN InboundScan(Tail(outgoing), srcTag, nextEdge)
            ELSE LET target == getNodeById(edge.target, nodes)
                 IN IF target.nodeType = "routing"
                    THEN IF doesRoutingMatch(target.routing, input, srcTag)
                         THEN <<edge>>
                         ELSE InboundScan(Tail(outgoing), srcTag, nextEdge)
                    ELSE InboundScan(Tail(outgoing), srcTag,
                                     IF nextEdge = <<>> THEN <<edge>>
                                     ELSE nextEdge)

\* balancer branch: the selector test of one target tag
SelectorAccepts(selector, tag) ==
    \E i \in 1..Len(selector) : tag = selector[i] \/ Includes(tag, selector[i])

\* balancer branch: the filter callback raises a TypeError when it reads
\* .includes of the missing tag of a target
FilterThrows(outgoing, selector) ==
    \E i \in 1..Len(outgoing) :
        /\ HasNode(outgoing[i].target, nodes)
        /\ selector # <<>>
        /\ ~HasTagProperty(getNodeById(outgoing[i].target, nodes))

validTargets(outgoing, selector) ==
    FilterSeq(outgoing,
        {e \in Range(outgoing) :
            /\ HasNode(e.target, nodes)
            /\ \/ selector = <<>>
               \/ SelectorAccepts(selector, getNodeById(e.target, nodes).tag)})

\* getNodeById(edge.target, nodes) as the next currentNode
NextNode(edge) ==
    IF HasNode(edge.target, nodes) THEN edge.target ELSE Undefined

\* top of the while loop with a node not yet visited
AtUnvisited ==
    /\ pc = "walk"
    /\ currentNode # Undefined
    /\ currentNode \notin visited

Current == getNodeById(currentNode, nodes)

\* visited.add, highlightNodeIds.push, path.push of an iteration
Enter(description) ==
    /\ visited' = visited \cup {currentNode}
    /\ highlightNodeIds' = Append(highlightNodeIds, currentNode)
    /\ path' = Append(path, Step(Current, description))

Return(res) ==
    /\ result' = res
    /\ pc' = "done"
    /\ UNCHANGED currentNode

\* Continue that leaves the edge it takes out of highlightEdgeIds
Continue_NoHighlight(edge) ==
    /\ highlightEdgeIds' = highlightEdgeIds
    /\ currentNode' = NextNode(edge)
    /\ UNCHANGED <<pc, result>>

Continue(edge) ==
    /\ highlightEdgeIds' = Append(highlightEdgeIds, edge.id)
    /\ currentNode' = NextNode(edge)
    /\ UNCHANGED <<pc, result>>

\* Frame for a getOutgoingEdges that sorts the edge list it is given
Frame_SortsEdgesInPlace ==
    /\ edges' = SortByPriority(edges, <<>>)
    /\ UNCHANGED <<nodes, input, routing, sourceInboundTag, matched,
                   validation, documentVars,
                   editorVars>>

\* lines 214-222 and 254-258: filter gives a new list, which is the one that
\* is sorted; the node list, the edge list and the request are only read
Frame == UNCHANGED <<nodes, edges, input, routing, sourceInboundTag, matched,
                     validation, documentVars,
                   editorVars>>

\* lines 265-282: find the start inbound
FindStart ==
    /\ pc = "start"
    /\ IF StartIndexes = {}
       THEN /\ Return(Returned(FALSE, Absent, "INPUT not found"))
       ELSE /\ currentNode' =
                 nodes[CHOOSE i \in StartIndexes :
                          \A j \in StartIndexes : i <= j].id
            /\ pc' = "walk"
            /\ UNCHANGED result
    /\ UNCHANGED <<visited, path, highlightNodeIds, highlightEdgeIds>>
    /\ Frame

\* CycleStop without the visited check: the walk goes on along the first
\* outgoing edge of the node it re-entered
CycleStop_KeepsWalking ==
    /\ pc = "walk"
    /\ currentNode # Undefined
    /\ currentNode \in visited
    /\ LET outgoing == getOutgoingEdges(currentNode, edges)
       IN IF outgoing = <<>>
          THEN Return(Returned(FALSE, Absent, "Dead end"))
          ELSE /\ currentNode' = NextNode(outgoing[1])
               /\ UNCHANGED <<pc, result>>
    /\ UNCHANGED <<visited, path, highlightNodeIds, highlightEdgeIds>>
    /\ Frame

\* lines 285-301: the node was visited before
CycleStop ==
    /\ pc = "walk"
    /\ currentNode # Undefined
    /\ currentNode \in visited
    /\ path' = Append(path, Step(Current, "Cycle detected"))
    /\ Return(Returned(FALSE, Absent, "Traffic entered a cycle"))
    /\ UNCHANGED <<visited, highlightNodeIds, highlightEdgeIds>>
    /\ Frame

\* lines 315-329
TerminalStop ==
    /\ AtUnvisited
    /\ Current.nodeType = "outbound-terminal"
    /\ Enter("node")
    /\ Return(Returned(TRUE, Current.tag, "via terminal"))
    /\ UNCHANGED highlightEdgeIds
    /\ Frame

\* lines 332-357
ProxyStep ==
    /\ AtUnvisited
    /\ Current.nodeType = "outbound-proxy"
    /\ Enter("node")
    /\ LET outgoing == getOutgoingEdges(currentNode, edges)
           chained ==
               /\ outgoing # <<>>
               /\ HasNode(outgoing[1].target, nodes)
               /\ getNodeById(outgoing[1].target, nodes).nodeType = "inbound"
       IN IF chained
          THEN Continue(outgoing[1])
          ELSE /\ Return(Returned(TRUE, Current.tag, "Traffic forwarded"))
               /\ UNCHANGED highlightEdgeIds
    /\ Frame

NextHopKinds == {"inbound", "routing", "balancer"}

\* DeadEnd that reports the dead end only for routing nodes and balancers
DeadEnd_InboundGoesOn ==
    /\ AtUnvisited
    /\ Current.nodeType \notin {"outbound-terminal", "outbound-proxy"}
    /\ getOutgoingEdges(currentNode, edges) = <<>>
    /\ Enter("node")
    /\ Return(Returned(Current.nodeType = "inbound", Absent,
                       IF Current.nodeType = "inbound" THEN "no rule"
                       ELSE "Dead end"))
    /\ UNCHANGED highlightEdgeIds
    /\ Frame

\* lines 360-371: no outgoing edge at a node that is no outbound
DeadEnd ==
    /\ AtUnvisited
    /\ Current.nodeType \notin {"outbound-terminal", "outbound-proxy"}
    /\ getOutgoingEdges(currentNode, edges) = <<>>
    /\ Enter("node")
    /\ Return(Returned(FALSE, Absent, "Dead end"))
    /\ UNCHANGED highlightEdgeIds
    /\ Frame

\* lines 374-408
InboundStep ==
    /\ AtUnvisited
    /\ Current.nodeType = "inbound"
    /\ getOutgoingEdges(currentNode, edges) # <<>>
    /\ Enter("node")
    /\ LET nextEdge ==
               InboundScan(getOutgoingEdges(currentNode, edges),
                           Current.tag, <<>>)
       IN IF nextEdge = <<>>
          THEN /\ Return(Returned(FALSE, Absent, "No routing rule matched"))
               /\ UNCHANGED highlightEdgeIds
          ELSE Continue(nextEdge[1])
    /\ Frame

\* lines 412-417
RoutingStep ==
    /\ AtUnvisited
    /\ Current.nodeType = "routing"
    /\ getOutgoingEdges(currentNode, edges) # <<>>
    /\ Enter("node")
    /\ Continue(getOutgoingEdges(currentNode, edges)[1])
    /\ Frame

\* lines 420-466
BalancerStep ==
    /\ AtUnvisited
    /\ Current.nodeType = "balancer"
    /\ getOutgoingEdges(currentNode, edges) # <<>>
    /\ LET outgoing == getOutgoingEdges(currentNode, edges)
           valid == validTargets(outgoing, Current.selector)
       IN IF FilterThrows(outgoing, Current.selector)
          THEN /\ Enter("node")
               /\ result' = Thrown
               /\ pc' = "done"
               /\ UNCHANGED <<currentNode, highlightEdgeIds>>
          ELSE IF valid = <<>>
          THEN /\ Enter("node")
               /\ Continue(outgoing[1])
          ELSE \E k \in 1..Len(valid) :
                  /\ Current.strategy = "random" \/ k = 1
                  /\ Enter("selected")
                  /\ Continue(valid[k])
    /\ Frame

\* lines 468-479: a node of another kind with outgoing edges leaves the loop
OtherKindStop ==
    /\ AtUnvisited
    /\ Current.nodeType \notin
           NextHopKinds \cup {"outbound-terminal", "outbound-proxy"}
    /\ getOutgoingEdges(currentNode, edges) # <<>>
    /\ Enter("node")
    /\ Return(Returned(FALSE, Absent, "Simulation ended unexpectedly"))
    /\ UNCHANGED highlightEdgeIds
    /\ Frame

\* lines 284, 472-479: the target of the edge taken is no node of the list
LoopExit ==
    /\ pc = "walk"
    /\ currentNode = Undefined
    /\ Return(Returned(FALSE, Absent, "Simulation ended unexpectedly"))
    /\ UNCHANGED <<visited, path, highlightNodeIds, highlightEdgeIds>>
    /\ Frame

NextSim ==
    \/ FindStart
    \/ CycleStop
    \/ TerminalStop
    \/ ProxyStep
    \/ DeadEnd
    \/ InboundStep
    \/ RoutingStep
    \/ BalancerStep
    \/ OtherKindStop
    \/ LoopExit

----------------------------------------------------------------------------
(* Values the specifications draw their inputs from                        *)

TagA == <<"a">>
TagB == <<"b">>

\* serverIds
S1 == <<"s1">>
S2 == <<"s2">>
S9 == <<"s9">>      \* a serverId that names no server of the list

DomX == <<"x", "com">>
DomWX == <<"w", "x", "com">>
DomY == <<"y", "com">>
DomG == <<"google", "com">>

Domains == {DomX, DomWX, DomY, DomG}

DomainRule(kind, arg) == [kind |-> kind, arg |-> arg, valid |-> TRUE]
BadRegexp == [kind |-> "regexp", arg |-> <<"x">>, valid |-> FALSE]

DomainLists ==
    { <<>>,
      <<DomainRule("domain", DomX)>>,
      <<DomainRule("full", DomY), DomainRule("plain", DomX)>>,
      <<DomainRule("full", DomX)>>,
      <<BadRegexp, DomainRule("regexp", <<"x">>)>>,
      <<BadRegexp>>,
      <<DomainRule("geosite", <<"google">>), DomainRule("geosite", <<"ads">>)>> }

PortRules == SeqsUpTo(PortChars, MaxPortLen)
RequestPorts == {1, 2, 3, 13}

NoRouting ==
    [domain |-> <<>>, ip |-> <<>>, port |-> Absent, protocol |-> <<>>,
     network |-> Absent, inboundTag |-> Absent]

NoInput == [domain |-> DomX, protocol |-> "tcp", port |-> 1, inboundTag |-> TagA]

\* routing nodes that combine the predicate categories
CategoryRoutings ==
    [domain : DomainLists,
     ip : {<<>>, <<"geoip:cn">>},
     port : {Absent, <<"1">>, <<"1", "-", "3">>},
     protocol : {<<>>, <<"TCP">>, <<"udp", "tcp">>},
     network : {Absent, <<"udp">>},
     inboundTag : {Absent, TagA}]

\* routing nodes that carry only a port rule, any string of the alphabet
PortRoutings ==
    {[NoRouting EXCEPT !.port = p, !.inboundTag = t] :
        p \in PortRules, t \in {Absent, TagB}}

MatchInputs ==
    [domain : {DomX, DomWX, DomY}, protocol : {"tcp", "udp"},
     port : {1, 2}, inboundTag : {TagA}]

PortInputs ==
    [domain : {DomX}, protocol : {"tcp"}, port : RequestPorts,
     inboundTag : {TagA}]

NoResult ==
    [returned |-> FALSE, thrown |-> FALSE, success |-> FALSE,
     finalOutbound |-> Absent, explanation |-> "none"]

emptyResult ==
    [valid |-> TRUE, errors |-> <<>>, warnings |-> <<>>, infos |-> <<>>]

NoValidation == emptyResult

----------------------------------------------------------------------------
(* Specification SpecMatch: doesRoutingMatch applied to bounded inputs    *)

NoConfig ==
    [inbounds |-> <<>>, outbounds |-> <<>>, rules |-> <<>>, balancers |-> <<>>]

NoImport == [nodes |-> <<>>, edges |-> <<>>]

IdleDocuments ==
    /\ servers = <<>>
    /\ exported = <<>>
    /\ config = NoConfig
    /\ createRoutingNodes = TRUE
    /\ imported = NoImport
    /\ reexported = <<>>

\* useHistoryStore.ts lines 19-24 (historyState) and a session that starts
IdleHistory ==
    /\ past = <<>>
    /\ future = <<>>
    /\ lastSnapshot = <<>>
    /\ paused = FALSE
    /\ selection = {}
    /\ nextId = 1
    /\ ops = 0

\* useValidation is not mounted
IdleEditor ==
    /\ IdleHistory
    /\ timer = {}
    /\ timerRef = <<>>
    /\ effectDue = FALSE
    /\ version = 0
    /\ validatedVersion = 0

IdleSim ==
    /\ currentNode = Undefined
    /\ visited = {}
    /\ path = <<>>
    /\ highlightNodeIds = <<>>
    /\ highlightEdgeIds = <<>>
    /\ result = NoResult

InitMatch ==
    /\ nodes = <<>>
    /\ edges = <<>>
    /\ pc = "match"
    /\ IdleSim
    /\ IdleDocuments
    /\ IdleEditor
    /\ matched = FALSE
    /\ validation = NoValidation
    /\ sourceInboundTag \in {TagA, TagB}
    /\ \/ routing \in CategoryRoutings /\ input \in MatchInputs
       \/ routing \in PortRoutings /\ input \in PortInputs

Match ==
    /\ pc = "match"
    /\ matched' = doesRoutingMatch(routing, input, sourceInboundTag)
    /\ pc' = "matched"
    /\ UNCHANGED <<nodes, edges, input, currentNode, visited, path,
                   highlightNodeIds, highlightEdgeIds, result, routing,
                   sourceInboundTag, validation, documentVars,
                   editorVars>>

NextMatch == Match

SpecMatch == InitMatch /\ [][NextMatch]_vars

----------------------------------------------------------------------------
(* Reference predicate of the routing match                               *)

IsDigits(s) == s # <<>> /\ \A i \in 1..Len(s) : s[i] \in Digits

\* the items of a port rule: maximal comma-free stretches, as index pairs
PortItems(rule) ==
    {<<i, j>> \in (1..Len(rule) + 1) \X (0..Len(rule)) :
        /\ i <= j + 1
        /\ i = 1 \/ rule[i - 1] = ","
        /\ j = Len(rule) \/ rule[j + 1] = ","
        /\ \A k \in i..j : rule[k] # ","}

ItemText(rule, it) == SubSeq(rule, it[1], it[2])

\* item is  port  or  start-end
ItemIsPort(s) == IsDigits(s)
ItemIsRange(s) ==
    \E k \in 1..Len(s) :
        /\ s[k] = "-"
        /\ IsDigits(SubSeq(s, 1, k - 1))
        /\ IsDigits(SubSeq(s, k + 1, Len(s)))

\* PORT_RANGE_RE: ^(\d+(-\d+)?)(,\d+(-\d+)?)*$
WellFormedPortRule(rule) ==
    \A it \in PortItems(rule) :
        ItemIsPort(ItemText(rule, it)) \/ ItemIsRange(ItemText(rule, it))

PortListed(rule, port) ==
    \E it \in PortItems(rule) :
        LET s == ItemText(rule, it)
        IN \/ ItemIsPort(s) /\ DecimalAcc(s, 0) = port
           \/ \E k \in 1..Len(s) :
                /\ s[k] = "-"
                /\ IsDigits(SubSeq(s, 1, k - 1))
                /\ IsDigits(SubSeq(s, k + 1, Len(s)))
                /\ DecimalAcc(SubSeq(s, 1, k - 1), 0) <= port
                /\ port <= DecimalAcc(SubSeq(s, k + 1, Len(s)), 0)

\* AND across the categories present, OR inside a category; ip alone never
\* matches and ip next to a domain category does not block
RefCategoriesMatch(r, in) ==
    /\ r.domain # <<>> =>
          \E rule \in Range(r.domain) : matchDomainRule(rule, in.domain)
    /\ r.ip # <<>> => r.domain # <<>>
    /\ r.port # Absent => PortListed(r.port, in.port)
    /\ r.protocol # <<>> =>
          \E p \in Range(r.protocol) : toLowerCase(p) = toLowerCase(in.protocol)
    /\ r.network # Absent => r.network = <<in.protocol>>

InboundTagPasses(r, srcTag) == r.inboundTag = Absent \/ r.inboundTag = srcTag

\* C3 (as stated): doesRoutingMatch agrees with the reference predicate on
\* domain, ip, port, protocol and network for every routing node and request;
\* in particular a node with none of these five predicates matches every
\* request.
C3_AgreesWithReference ==
    pc = "matched" => (matched <=> RefCategoriesMatch(routing, input))

\* C3 (amended): the agreement holds for every routing node whose inboundTag
\* predicate is absent or equals the tag of the current inbound and whose
\* port rule, when present, is a well-formed list of ports and start-end
\* ranges.
C3_AgreesWhenTagPassesAndPortWellFormed ==
    (/\ pc = "matched"
     /\ InboundTagPasses(routing, sourceInboundTag)
     /\ routing.port # Absent => WellFormedPortRule(routing.port))
    => (matched <=> RefCategoriesMatch(routing, input))

\* an ip category next to a satisfied domain category, with a port range
\* that holds the request port, has matched
C3_Witness ==
    /\ pc = "matched"
    /\ matched
    /\ routing.ip # <<>>
    /\ routing.domain # <<>>
    /\ routing.port = <<"1", "-", "3">>
    /\ input.port = 2
    /\ routing.inboundTag = sourceInboundTag

----------------------------------------------------------------------------
(* Connection rules (utils/connectionRules.ts)                             *)

\* the table in which a device connects to inbound nodes only
allowed_DeviceToInboundOnly(sourceType) ==
    CASE sourceType = "device" -> {"inbound"}
      [] sourceType = "inbound" ->
            {"routing", "balancer", "outbound-terminal", "outbound-proxy"}
      [] sourceType = "routing" ->
            {"routing", "balancer", "outbound-terminal", "outbound-proxy"}
      [] sourceType = "balancer" -> {"outbound-terminal", "outbound-proxy"}
      [] sourceType = "outbound-proxy" -> {"inbound"}
      [] OTHER -> {}

\* lines 40-46: the table of allowed target types; a source type without an
\* entry has no allowed target
allowed(sourceType) ==
    CASE sourceType = "device" -> {"inbound", "outbound-proxy"}
      [] sourceType = "inbound" ->
            {"routing", "balancer", "outbound-terminal", "outbound-proxy"}
      [] sourceType = "routing" ->
            {"routing", "balancer", "outbound-terminal", "outbound-proxy"}
      [] sourceType = "balancer" -> {"outbound-terminal", "outbound-proxy"}
      [] sourceType = "outbound-proxy" -> {"inbound"}
      [] OTHER -> {}

isValidConnection(sourceNode, targetNode) ==
    LET sourceType == sourceNode.nodeType
        targetType == targetNode.nodeType
    IN IF sourceType = "outbound-terminal"
       THEN [valid |-> FALSE,
             reason |-> "Terminal OUTPUT nodes cannot have outgoing connections"]
       ELSE IF targetType \notin allowed(sourceType)
       THEN [valid |-> FALSE, reason |-> "Cannot connect"]
       ELSE [valid |-> TRUE, reason |-> ""]

----------------------------------------------------------------------------
(* Validation engine (validation.ts)                                       *)

MaxPortNumber == 65535

isValidPort(port) == port >= 1 /\ port <= MaxPortNumber

Issue(level, nodeId, message) ==
    [level |-> level, nodeId |-> nodeId, message |-> message]

RECURSIVE Flatten(_)
Flatten(ss) == IF ss = <<>> THEN <<>> ELSE Head(ss) \o Flatten(Tail(ss))

\* issues pushed by a forEach over a list: F gives the issues of one element
ForEach(s, F(_)) == Flatten([i \in 1..Len(s) |-> F(s[i])])

When(cond, issue) == IF cond THEN <<issue>> ELSE <<>>

\* !data.tag || data.tag.trim() === ''
IsBlank(tag) == \A i \in 1..Len(tag) : tag[i] = " "

TaggedKinds == {"inbound", "routing", "balancer", "outbound-terminal",
                "outbound-proxy"}

\* validateInbound, validateRouting, validateBalancer, validateOutbound on
\* the fields of the model
NodeIssues(n) ==
    When(n.nodeType \in TaggedKinds /\ IsBlank(n.tag),
         Issue("error", n.id, "node requires a tag"))
    \o When(n.nodeType = "inbound" /\ ~isValidPort(n.port),
            Issue("error", n.id, "Invalid port"))
    \o When(/\ n.nodeType = "routing"
            /\ n.routing.domain = <<>> /\ n.routing.ip = <<>>
            /\ n.routing.port = Absent /\ n.routing.inboundTag = Absent
            /\ n.routing.network = Absent /\ n.routing.protocol = <<>>,
            Issue("warning", n.id, "Routing node has no rules defined"))
    \o When(/\ n.nodeType = "routing"
            /\ n.routing.port # Absent
            /\ ~WellFormedPortRule(n.routing.port),
            Issue("error", n.id, "Invalid port format"))
    \o When(/\ n.nodeType = "balancer"
            /\ ("selector" \in n.absent \/ n.selector = <<>>),
            Issue("warning", n.id, "Balancer has no selectors"))

\* ids of the nodes that satisfy Test, in list order
IdsWhere(ns, Test(_)) ==
    LET sel == SelectSeq(ns, Test) IN [i \in 1..Len(sel) |-> sel[i].id]

\* tag under which validateStructure files a node, <<>> when it files none
FiledTag(n) ==
    IF HasTagProperty(n) /\ ~IsBlank(n.tag) THEN n.tag ELSE <<>>

\* DuplicateTagIssues that reports every node of a group but the first
DuplicateTagIssues_SkipsFirst(ns) ==
    LET first(i) == /\ FiledTag(ns[i]) # <<>>
                    /\ \A j \in 1..(i - 1) : FiledTag(ns[j]) # FiledTag(ns[i])
        group(i) == IdsWhere(ns, LAMBDA m : FiledTag(m) = FiledTag(ns[i]))
    IN Flatten([i \in 1..Len(ns) |->
           IF first(i) /\ Len(group(i)) > 1
           THEN [k \in 1..(Len(group(i)) - 1) |->
                    Issue("error", group(i)[k + 1], "Duplicate tag")]
           ELSE <<>>])

\* lines 252-270: the tags map in insertion order, one error per node of a
\* tag filed more than once
DuplicateTagIssues(ns) ==
    LET first(i) == /\ FiledTag(ns[i]) # <<>>
                    /\ \A j \in 1..(i - 1) : FiledTag(ns[j]) # FiledTag(ns[i])
        group(i) == IdsWhere(ns, LAMBDA m : FiledTag(m) = FiledTag(ns[i]))
    IN Flatten([i \in 1..Len(ns) |->
           IF first(i) /\ Len(group(i)) > 1
           THEN [k \in 1..Len(group(i)) |->
                    Issue("error", group(i)[k], "Duplicate tag")]
           ELSE <<>>])

\* lines 272-290: the portMap keyed by the port alone
PortConflictIssues(ns) ==
    LET inb(i) == ns[i].nodeType = "inbound"
        first(i) == /\ inb(i)
                    /\ \A j \in 1..(i - 1) : inb(j) => ns[j].port # ns[i].port
        group(i) ==
            IdsWhere(ns, LAMBDA m : m.nodeType = "inbound" /\ m.port = ns[i].port)
    IN Flatten([i \in 1..Len(ns) |->
           IF first(i) /\ Len(group(i)) > 1
           THEN [k \in 1..Len(group(i)) |->
                    Issue("error", group(i)[k], "Port conflict")]
           ELSE <<>>])

OfKind(ns, kind) == SelectSeq(ns, LAMBDA n : n.nodeType = kind)

HasOutgoing(n, es) == \E e \in Range(es) : e.source = n.id
HasIncoming(n, es) == \E e \in Range(es) : e.target = n.id

HasUpstreamProxy(n, ns, es) ==
    \E e \in Range(es) :
        /\ e.target = n.id
        /\ HasNode(e.source, ns)
        /\ getNodeById(e.source, ns).nodeType = "outbound-proxy"

\* canReachOutbound: depth-first search that shares one visited set; the
\* value is [found, visited]
RECURSIVE canReachOutbound(_, _, _, _)
RECURSIVE ReachSome(_, _, _, _)
canReachOutbound(nodeId, es, outboundIds, seen) ==
    IF nodeId \in outboundIds THEN [found |-> TRUE, visited |-> seen]
    ELSE IF nodeId \in seen THEN [found |-> FALSE, visited |-> seen]
    ELSE ReachSome(SelectSeq(es, LAMBDA e : e.source = nodeId), es,
                   outboundIds, seen \cup {nodeId})

\* outgoing.some(...) that gives up after the first outgoing edge
ReachSome_FirstEdgeOnly(outgoing, es, outboundIds, seen) ==
    IF outgoing = <<>> THEN [found |-> FALSE, visited |-> seen]
    ELSE canReachOutbound(Head(outgoing).target, es, outboundIds, seen)

\* outgoing.some(...)
ReachSome(outgoing, es, outboundIds, seen) ==
    IF outgoing = <<>> THEN [found |-> FALSE, visited |-> seen]
    ELSE LET r == canReachOutbound(Head(outgoing).target, es, outboundIds, seen)
         IN IF r.found THEN r
            ELSE ReachSome(Tail(outgoing), es, outboundIds, r.visited)

NodeType(nodeId, ns) ==
    IF HasNode(nodeId, ns) THEN getNodeById(nodeId, ns).nodeType
    ELSE "undefined"

\* adjacency of detectCycles with the proxy -> inbound edges left in
adjacency_KeepsProxyChains(nodeId, ns, es) ==
    IF ~HasNode(nodeId, ns) THEN <<>>
    ELSE LET kept == SelectSeq(es, LAMBDA e : e.source = nodeId)
         IN [i \in 1..Len(kept) |-> kept[i].target]

\* lines 440-455: neighbours of a node, outbound-proxy -> inbound edges
\* skipped; a node that is not in the list has none
adjacency(nodeId, ns, es) ==
    IF ~HasNode(nodeId, ns) THEN <<>>
    ELSE LET kept ==
                 SelectSeq(es, LAMBDA e :
                     /\ e.source = nodeId
                     /\ ~(/\ NodeType(e.source, ns) = "outbound-proxy"
                          /\ NodeType(e.target, ns) = "inbound"))
         IN [i \in 1..Len(kept) |-> kept[i].target]

\* lines 460-481: dfs; the value is the state of the search (visited,
\* inStack, issues) and the boolean returned
RECURSIVE dfs(_, _, _, _)
RECURSIVE DfsNeighbors(_, _, _, _, _)
dfs(nodeId, ns, es, st) ==
    IF nodeId \in st.inStack THEN [st EXCEPT !.ret = TRUE]
    ELSE IF nodeId \in st.visited THEN [st EXCEPT !.ret = FALSE]
    ELSE LET entered == [st EXCEPT !.visited = @ \cup {nodeId},
                                   !.inStack = @ \cup {nodeId}]
             r == DfsNeighbors(nodeId, adjacency(nodeId, ns, es), ns, es, entered)
         IN IF r.ret THEN r
            ELSE [r EXCEPT !.inStack = @ \ {nodeId}]

\* the for loop over neighbors: a neighbour that returns true pushes the
\* error for nodeId and returns true with nodeId left in inStack
DfsNeighbors(nodeId, neighbors, ns, es, st) ==
    IF neighbors = <<>> THEN [st EXCEPT !.ret = FALSE]
    ELSE LET r == dfs(Head(neighbors), ns, es, st)
         IN IF r.ret
            THEN [r EXCEPT !.issues =
                     Append(@, Issue("error", nodeId, "Cycle detected"))]
            ELSE DfsNeighbors(nodeId, Tail(neighbors), ns, es, r)

\* lines 483-487: dfs from every node not visited yet
RECURSIVE DfsRoots(_, _, _, _)
DfsRoots(roots, ns, es, st) ==
    IF roots = <<>> THEN st
    ELSE IF Head(roots).id \in st.visited
         THEN DfsRoots(Tail(roots), ns, es, st)
         ELSE DfsRoots(Tail(roots), ns, es, dfs(Head(roots).id, ns, es, st))

detectCycles(ns, es) ==
    DfsRoots(ns, ns, es,
             [visited |-> {}, inStack |-> {}, issues |-> <<>>, ret |-> FALSE]
            ).issues

\* lines 319-350: a device wired to a proxy outbound of another protocol
\* family is an error on both nodes; protocol holds the connectionType of a
\* device
DeviceCompatIssues(ns, es) ==
    ForEach(OfKind(ns, "device"), LAMBDA device :
        ForEach(SelectSeq(es, LAMBDA e : e.source = device.id), LAMBDA edge :
            IF /\ NodeType(edge.target, ns) = "outbound-proxy"
               /\ getNodeById(edge.target, ns).protocol #
                     (IF device.protocol = "http" THEN "http" ELSE "socks")
            THEN <<Issue("error", device.id, "Device must connect to a matching OUTPUT"),
                   Issue("error", edge.target, "OUTPUT protocol is incompatible with connected device")>>
            ELSE <<>>))

validateStructure(ns, es) ==
    LET terminalIds == {n.id : n \in {m \in Range(ns) :
                                         m.nodeType = "outbound-terminal"}}
    IN DuplicateTagIssues(ns)
       \o PortConflictIssues(ns)
       \o ForEach(OfKind(ns, "inbound"), LAMBDA n :
             When(~HasOutgoing(n, es),
                  Issue("warning", n.id, "INPUT node has no outgoing connections")))
       \o ForEach(OfKind(ns, "inbound"), LAMBDA n :
             When(~HasUpstreamProxy(n, ns, es),
                  Issue("warning", n.id, "No upstream OUTPUT connects to this INPUT")))
       \o DeviceCompatIssues(ns, es)
       \o ForEach(OfKind(ns, "outbound-terminal"), LAMBDA n :
             When(~HasIncoming(n, es),
                  Issue("warning", n.id, "Terminal OUTPUT has no incoming connections")))
       \o ForEach(OfKind(ns, "outbound-proxy"), LAMBDA n :
             When(~HasIncoming(n, es),
                  Issue("warning", n.id, "Proxy OUTPUT has no incoming connections")))
       \o ForEach(OfKind(ns, "outbound-proxy"), LAMBDA n :
             When(~HasOutgoing(n, es),
                  Issue("warning", n.id, "Proxy OUTPUT is a dead-end")))
       \o ForEach(OfKind(ns, "inbound"), LAMBDA n :
             When(~canReachOutbound(n.id, es, terminalIds, {}).found,
                  Issue("warning", n.id, "INPUT node cannot reach any terminal OUTPUT")))
       \o detectCycles(ns, es)

\* line 516: data.selector.length on a balancer whose data has no selector
\* raises a TypeError
validateConfigThrows(ns) ==
    \E n \in Range(ns) : n.nodeType = "balancer" /\ "selector" \in n.absent

\* lines 513-529 and 502-511
validateConfig(ns) ==
    LET allTags == {n.tag : n \in {m \in Range(ns) :
                                      HasTagProperty(m) /\ m.tag # <<>>}}
    IN ForEach(OfKind(ns, "routing"), LAMBDA n :
          When(n.routing.inboundTag # Absent /\ n.routing.inboundTag \notin allTags,
               Issue("warning", n.id, "Routing references unknown inboundTag")))
       \o ForEach(OfKind(ns, "balancer"), LAMBDA n :
             ForEach(n.selector, LAMBDA sel :
                When(~\E tag \in allTags : StartsWith(tag, sel),
                     Issue("warning", n.id, "Balancer selector matches no OUTPUT tag"))))

\* the value returned when no step raises
validateGraph(ns, es) ==
    LET issues == ForEach(ns, NodeIssues) \o validateStructure(ns, es)
                  \o validateConfig(ns)
        errors == SelectSeq(issues, LAMBDA i : i.level = "error")
    IN [valid |-> errors = <<>>,
        errors |-> errors,
        warnings |-> SelectSeq(issues, LAMBDA i : i.level = "warning"),
        infos |-> SelectSeq(issues, LAMBDA i : i.level = "info")]

----------------------------------------------------------------------------
(* Specification SpecSim: runSimulation on bounded graphs                  *)

Node(id, nodeType, tag) ==
    [id |-> id, nodeType |-> nodeType, tag |-> tag, port |-> id,
     protocol |-> IF nodeType = "outbound-terminal" THEN "freedom" ELSE "socks", routing |-> NoRouting, selector |-> <<>>,
     strategy |-> "random", absent |-> {}, serverId |-> Absent,
     transport |-> Absent]

Edge(source, target, priority) ==
    [id |-> 0, source |-> source, target |-> target, priority |-> priority,
     transport |-> Absent]

\* edge ids are the positions in the edge list
WithIds(es) == [i \in 1..Len(es) |-> [es[i] EXCEPT !.id = i]]

Ghost == 9 + 1         \* an id that names no node of SimNodes

SimRoutings ==
    { NoRouting,
      [NoRouting EXCEPT !.domain = <<DomainRule("domain", DomX)>>],
      [NoRouting EXCEPT !.inboundTag = TagA],
      [NoRouting EXCEPT !.inboundTag = TagB] }

Selectors == {<<>>, <<<<"p">>>>, <<<<"z">>, <<"x", "p">>>>, <<<<"z">>>>}
Strategies == {"random", "roundRobin", "leastPing"}

\* the node list of every simulated graph: two inbounds, two routing nodes,
\* a balancer, two proxy outbounds, a terminal outbound and a device
SimNodes(r1, r2, selector, strategy) ==
    << Node(1, "inbound", TagA),
       Node(2, "inbound", TagB),
       [Node(3, "routing", <<"r", "1">>) EXCEPT !.routing = r1],
       [Node(4, "routing", <<"r", "2">>) EXCEPT !.routing = r2],
       [Node(5, "balancer", <<"l", "b">>) EXCEPT
            !.selector = selector, !.strategy = strategy],
       Node(6, "outbound-proxy", <<"p", "x">>),
       Node(7, "outbound-proxy", <<"x", "p">>),
       Node(8, "outbound-terminal", <<"t">>),
       Node(9, "device", Absent) >>

Priorities == {Absent, <<1000>>} \cup {<<p>> : p \in 1..MaxPriority}

FreeEdges(sources, targets, priorities) ==
    SeqsUpTo({Edge(s, t, p) : s \in sources, t \in targets, p \in priorities},
             MaxEdges)

SimInputs ==
    [domain : {DomX, DomY}, protocol : {"tcp"}, port : {1},
     inboundTag : {TagA}]

\* the graph and the request handed to the entry point
Given(ns, es, in) == nodes = ns /\ edges = WithIds(es) /\ input = in

\* an inbound with free edges to routing nodes, a direct target and a
\* missing node
InboundGraphs ==
    \E r1 \in SimRoutings, r2 \in SimRoutings, in \in SimInputs,
       free \in FreeEdges({1}, {3, 4, 8, Ghost}, Priorities) :
        Given(SimNodes(r1, r2, <<>>, "random"),
              free \o <<Edge(3, 8, Absent), Edge(4, 8, Absent)>>, in)

\* free edges among the inbound and the routing nodes: chains and cycles;
\* the second routing node leads to the terminal outbound
ChainGraphs ==
    \E r1 \in SimRoutings, r2 \in SimRoutings, in \in SimInputs,
       free \in FreeEdges({1, 3, 4}, {1, 3, 4, 8, Ghost}, {Absent}) :
        Given(SimNodes(r1, r2, <<>>, "random"),
              free \o <<Edge(4, 8, Absent)>>, in)

\* a balancer with free edges to outbounds, the device and a missing node
BalancerGraphs ==
    \E selector \in Selectors, strategy \in Strategies,
       free \in FreeEdges({5}, {6, 7, 8, 9, Ghost}, Priorities) :
        Given(SimNodes(NoRouting, NoRouting, selector, strategy),
              <<Edge(1, 5, Absent)>> \o free \o <<Edge(9, 8, Absent)>>,
              NoInput)

\* a proxy outbound with free edges to inbounds, an outbound and a missing
\* node; the chained inbound leads to a routing node
ProxyGraphs ==
    \E r1 \in SimRoutings,
       in \in [domain : {DomX}, protocol : {"tcp"}, port : {1},
               inboundTag : {TagA, <<"z">>}],
       free \in FreeEdges({6}, {1, 2, 8, Ghost}, Priorities) :
        Given(SimNodes(r1, NoRouting, <<>>, "random"),
              <<Edge(1, 6, Absent)>> \o free
                  \o <<Edge(2, 3, Absent), Edge(3, 8, Absent)>>, in)

SimIdle ==
    /\ pc = "start"
    /\ IdleSim
    /\ IdleDocuments
    /\ IdleEditor
    /\ routing = NoRouting
    /\ sourceInboundTag = Absent
    /\ matched = FALSE
    /\ validation = NoValidation

InitSim ==
    /\ SimIdle
    /\ \/ InboundGraphs
       \/ ChainGraphs
       \/ BalancerGraphs
       \/ ProxyGraphs

SpecSim == InitSim /\ [][NextSim]_vars

\* Graphs in which every node has at most one outgoing edge: the walk is
\* decided by the successor of each node
SuccessorGraphs ==
    \E t1 \in {3, 5, 6}, t3 \in {1, 4, 8, Ghost}, t4 \in {3, 8},
       t5 \in {6, 8, 9}, t6 \in {2, 8}, t2 \in {1, 3}, t9 \in {8},
       drop \in SUBSET {2, 9} :
        Given(SimNodes(NoRouting, NoRouting, <<>>, "roundRobin"),
              FilterSeq(<<Edge(1, t1, Absent), Edge(2, t2, Absent),
                          Edge(3, t3, Absent), Edge(4, t4, Absent),
                          Edge(5, t5, Absent), Edge(6, t6, Absent),
                          Edge(9, t9, Absent)>>,
                        {e \in [id : {0}, source : 1..9,
                                target : 1..Ghost, priority : {Absent},
                                transport : {Absent}] :
                            e.source \notin drop}),
              NoInput)

InitSimFair == SimIdle /\ SuccessorGraphs

\* runSimulation is a synchronous function: once called it runs on until it
\* returns
SpecSimFair == InitSimFair /\ [][NextSim]_vars /\ WF_vars(NextSim)

----------------------------------------------------------------------------
(* Properties of the simulation walk                                       *)

NoDuplicates(s) == \A i, j \in 1..Len(s) : s[i] = s[j] => i = j

\* the loop stands at a node that is already in the visited set
AtVisited == pc = "walk" /\ currentNode # Undefined /\ currentNode \in visited

CycleResult ==
    /\ pc = "done"
    /\ result.returned
    /\ ~result.success
    /\ result.explanation = "Traffic entered a cycle"

\* C1: runSimulation terminates on every node/edge list, cycles included:
\* no node is entered twice, every iteration that does not return adds a new
\* node to the visited set, a node that is already visited ends the run with
\* success = false and the cycle explanation, and every run reaches its end.
C1_TerminatesWithoutReentry ==
    /\ [](NoDuplicates(highlightNodeIds) /\ Len(highlightNodeIds) <= Len(nodes))
    /\ [][AtVisited => CycleResult']_vars
    /\ [][pc = "walk" =>
            (pc' = "done" \/ Cardinality(visited') > Cardinality(visited))]_vars
    /\ <>(pc = "done")

\* a run over a directed cycle has ended with the cycle failure
C1_Witness ==
    /\ CycleResult
    /\ Len(highlightNodeIds) >= 2
    /\ path[Len(path)].nodeId \in Range(highlightNodeIds)

----------------------------------------------------------------------------
(* The walk as recorded in highlightNodeIds and highlightEdgeIds: the i-th *)
(* edge is the edge taken when leaving the i-th node                       *)

Steps == 1..Len(highlightNodeIds)

NodeAt(i) == getNodeById(highlightNodeIds[i], nodes)

EdgeTaken(i) == i <= Len(highlightEdgeIds)

TakenEdge(i) == CHOOSE e \in Range(edges) : e.id = highlightEdgeIds[i]

\* the run ended at the i-th node without taking an edge
EndedAt(i) ==
    /\ pc = "done"
    /\ i = Len(highlightNodeIds)
    /\ ~EdgeTaken(i)

\* positions in the edge list of the edges leaving a node
Out(nodeId) == {k \in 1..Len(edges) : edges[k].source = nodeId}

\* ascending priority, a missing priority counting as 999, ties in list order
Before(k, l) ==
    \/ PriorityOf(edges[k]) < PriorityOf(edges[l])
    \/ PriorityOf(edges[k]) = PriorityOf(edges[l]) /\ k < l

IsFirst(k, S) == k \in S /\ \A l \in S \ {k} : Before(k, l)

TargetKind(k) ==
    IF HasNode(edges[k].target, nodes)
    THEN getNodeById(edges[k].target, nodes).nodeType
    ELSE "missing"

\* edges of an inbound to routing nodes that match the request
MatchingRoutingEdges(n) ==
    {k \in Out(n.id) :
        /\ TargetKind(k) = "routing"
        /\ doesRoutingMatch(getNodeById(edges[k].target, nodes).routing,
                            input, n.tag)}

\* edges of an inbound to nodes of another kind
DirectEdges(n) == {k \in Out(n.id) : TargetKind(k) \notin {"routing", "missing"}}

InboundTakes(i, S) == EdgeTaken(i) /\ \E k \in S : IsFirst(k, S) /\ TakenEdge(i) = edges[k]

InboundChoice(i) ==
    LET n == NodeAt(i)
    IN /\ MatchingRoutingEdges(n) # {} => InboundTakes(i, MatchingRoutingEdges(n))
       /\ MatchingRoutingEdges(n) = {} /\ DirectEdges(n) # {} =>
             InboundTakes(i, DirectEdges(n))

NoMatchResult ==
    /\ result.returned
    /\ ~result.success
    /\ result.explanation = "No routing rule matched"

\* the run is past the i-th node: it took an edge there or it has ended
Left(i) == EdgeTaken(i) \/ pc = "done"

\* C2: for every request and graph runSimulation returns a result record
\* with an explanation and raises no exception.
C2_NeverRaises ==
    /\ ~result.thrown
    /\ pc = "done" => result.returned /\ result.explanation # "none"

\* C4 (as stated): at an inbound the first edge in priority order to a
\* matching routing node is taken, failing that the first edge to a
\* non-routing target, and when there is neither the run ends with
\* success = false and 'No routing rule matched'.
C4_InboundPriorityScan ==
    \A i \in Steps :
        (NodeAt(i).nodeType = "inbound" /\ Left(i)) =>
            /\ InboundChoice(i)
            /\ (MatchingRoutingEdges(NodeAt(i)) = {} /\ DirectEdges(NodeAt(i)) = {})
                  => EndedAt(i) /\ NoMatchResult

\* C4 (amended): as stated, except that 'No routing rule matched' is the
\* outcome only for an inbound that has at least one outgoing edge; an
\* inbound without outgoing edges ends the run with the dead-end explanation.
C4_InboundPriorityScanOrDeadEnd ==
    \A i \in Steps :
        (NodeAt(i).nodeType = "inbound" /\ Left(i)) =>
            /\ InboundChoice(i)
            /\ (MatchingRoutingEdges(NodeAt(i)) = {} /\ DirectEdges(NodeAt(i)) = {})
                  => /\ EndedAt(i)
                     /\ result.returned /\ ~result.success
                     /\ IF Out(NodeAt(i).id) = {}
                        THEN result.explanation = "Dead end"
                        ELSE result.explanation = "No routing rule matched"

\* the inbound took the edge to a matching routing node although an edge to
\* a direct target comes earlier in priority order
C4_Witness ==
    /\ EdgeTaken(1)
    /\ NodeAt(1).nodeType = "inbound"
    /\ TargetKind(TakenEdge(1).id) = "routing"
    /\ \E k \in DirectEdges(NodeAt(1)) : Before(k, TakenEdge(1).id)

\* the target of an edge, for edges whose target is a node of the list
Target(k) == getNodeById(edges[k].target, nodes)

\* candidate edges of a balancer as the claim defines them: the target's tag
\* equals a selector entry or starts with it; every edge for an empty
\* selector list
Candidates(n) ==
    {k \in Out(n.id) :
        \/ n.selector = <<>>
        \/ /\ TargetKind(k) # "missing"
           /\ HasTagProperty(Target(k))
           /\ \E sel \in Range(n.selector) :
                 Target(k).tag = sel \/ StartsWith(Target(k).tag, sel)}

\* C5: at a balancer with an outgoing edge the edge taken is a candidate
\* (tag equal to or prefixed by a selector entry; any edge when the selector
\* list is empty), the first candidate in priority order for roundRobin and
\* leastPing, and the first outgoing edge when no edge is a candidate.
C5_BalancerTakesCandidate ==
    \A i \in Steps :
        LET n == NodeAt(i)
        IN (n.nodeType = "balancer" /\ Out(n.id) # {} /\ Left(i)) =>
              /\ EdgeTaken(i)
              /\ \E k \in Out(n.id) : TakenEdge(i) = edges[k]
              /\ Candidates(n) # {} =>
                    /\ \E k \in Candidates(n) : TakenEdge(i) = edges[k]
                    /\ n.strategy \in {"roundRobin", "leastPing"} =>
                          \E k \in Candidates(n) :
                              IsFirst(k, Candidates(n)) /\ TakenEdge(i) = edges[k]
              /\ Candidates(n) = {} =>
                    \E k \in Out(n.id) :
                        IsFirst(k, Out(n.id)) /\ TakenEdge(i) = edges[k]

\* C6: at an outbound-proxy the walk goes on at an inbound whenever one of
\* the outgoing edges targets an inbound, recording that edge; otherwise the
\* run stops with success = true and finalOutbound = the proxy's tag.
C6_ProxyFollowsAnyInboundEdge ==
    \A i \in Steps :
        LET n == NodeAt(i)
        IN (n.nodeType = "outbound-proxy" /\ Left(i)) =>
              IF \E k \in Out(n.id) : TargetKind(k) = "inbound"
              THEN /\ EdgeTaken(i)
                   /\ TakenEdge(i).source = n.id
                   /\ TargetKind(TakenEdge(i).id) = "inbound"
              ELSE /\ EndedAt(i)
                   /\ result.returned /\ result.success
                   /\ result.finalOutbound = n.tag

\* tag of the inbound the walk stood at last, up to the i-th node
RECURSIVE CurrentInboundTag(_)
CurrentInboundTag(i) ==
    IF i = 0 THEN input.inboundTag
    ELSE IF NodeAt(i).nodeType = "inbound" THEN NodeAt(i).tag
         ELSE CurrentInboundTag(i - 1)

\* C7: whenever the walk stands at a routing node the node's predicate
\* matches the request, also when the node was entered from a routing node.
C7_RoutingNodesOnWalkMatch ==
    \A i \in Steps :
        NodeAt(i).nodeType = "routing" =>
            doesRoutingMatch(NodeAt(i).routing, input, CurrentInboundTag(i))

\* the i-th node is an inbound and the walk left it for a routing node that
\* carries an inboundTag predicate
EnteredTaggedRouting(i) ==
    /\ NodeAt(i).nodeType = "inbound"
    /\ EdgeTaken(i)
    /\ TargetKind(TakenEdge(i).id) = "routing"
    /\ Target(TakenEdge(i).id).routing.inboundTag # Absent

\* C8: a routing node with an inboundTag predicate is entered from an
\* inbound only if the predicate equals the tag of that inbound, which after
\* a proxy hop is the chained inbound and not the request's inboundTag; a
\* routing node without the predicate matches the same whatever the tag of
\* the inbound.
C8_InboundTagOfCurrentInbound ==
    /\ \A i \in Steps :
          EnteredTaggedRouting(i) =>
              Target(TakenEdge(i).id).routing.inboundTag = NodeAt(i).tag
    /\ \A k \in 1..Len(nodes) :
          (nodes[k].nodeType = "routing" /\ nodes[k].routing.inboundTag = Absent)
          => (doesRoutingMatch(nodes[k].routing, input, TagA)
              <=> doesRoutingMatch(nodes[k].routing, input, TagB))

\* after a proxy hop the chained inbound, whose tag is not the request's
\* inboundTag, has led into a routing node whose inboundTag is its tag
C8_Witness ==
    \E i \in Steps :
        /\ i > 1
        /\ EnteredTaggedRouting(i)
        /\ NodeAt(i - 1).nodeType = "outbound-proxy"
        /\ NodeAt(i).tag # input.inboundTag
        /\ Target(TakenEdge(i).id).routing.inboundTag = NodeAt(i).tag

----------------------------------------------------------------------------
(* Specification SpecValidate: validateGraph on bounded graphs             *)

ValIds == {1, 2, 3}
ValEndpoints == ValIds \cup {Ghost}

\* node kinds of the three nodes of a validated graph
KindLists ==
    { <<"routing", "routing", "routing">>,
      <<"outbound-proxy", "inbound", "routing">>,
      <<"inbound", "outbound-proxy", "inbound">>,
      <<"inbound", "balancer", "outbound-terminal">> }

ValTags == {<<>>, <<" ">>, <<"a">>, <<"b">>}
DistinctTags == <<(<<"a">>), (<<"b">>), (<<"c">>)>>

ValNodes(kinds, tags) ==
    [i \in 1..Len(kinds) |->
        Node(i, kinds[i], IF kinds[i] = "device" THEN Absent ELSE tags[i])]

\* three nodes with distinct tags and free edges among them and a missing
\* node
EdgeGraphs ==
    \E kinds \in KindLists,
       free \in SeqsUpTo({Edge(a, b, Absent) : a \in ValEndpoints,
                                                b \in ValEndpoints},
                         MaxValEdges) :
        /\ nodes = ValNodes(kinds, DistinctTags)
        /\ edges = WithIds(free)

\* three nodes of any kind with free tags, blank tags included
TagGraphs ==
    \E kinds \in [1..3 -> TaggedKinds \cup {"device"}],
       tags \in [1..3 -> ValTags] :
        /\ nodes = ValNodes(kinds, tags)
        /\ edges = WithIds(<<Edge(1, 2, Absent)>>)

\* two inbounds, a proxy outbound and a terminal outbound with free edges
\* among them
ReachGraphs ==
    \E free \in SeqsUpTo({Edge(a, b, Absent) : a \in 1..4, b \in 1..4},
                         MaxValEdges) :
        /\ nodes = <<Node(1, "inbound", <<"a">>),
                     Node(2, "outbound-proxy", <<"p">>),
                     Node(3, "inbound", <<"b">>),
                     Node(4, "outbound-terminal", <<"t">>)>>
        /\ edges = WithIds(free)

\* an inbound, a balancer and a terminal outbound; the balancer's selector
\* list is any of Selectors or is missing from its data
SelectorGraphs ==
    \E selector \in Selectors, absent \in {{}, {"selector"}},
       tag \in {<<"t">>, <<"p">>, <<"x", "p">>},
       free \in SeqsUpTo({Edge(1, 2, Absent), Edge(2, 3, Absent)}, 2) :
        /\ nodes = <<Node(1, "inbound", <<"a">>),
                     [Node(2, "balancer", <<"lb">>) EXCEPT
                         !.selector = IF absent = {} THEN selector ELSE <<>>,
                         !.absent = absent],
                     Node(3, "outbound-terminal", tag)>>
        /\ edges = WithIds(free)

\* a balancer, a routing node and a terminal outbound that are well formed
\* on their own, with free edges among them
ConnGraphs ==
    \E free \in SeqsUpTo({Edge(a, b, Absent) : a \in 1..3, b \in 1..3}, 2) :
        /\ nodes = <<[Node(1, "balancer", <<"l", "b">>) EXCEPT
                         !.selector = <<(<<"t">>)>>],
                     [Node(2, "routing", <<"r">>) EXCEPT
                         !.routing = [NoRouting EXCEPT
                                         !.domain = <<DomainRule("full", DomX)>>]],
                     Node(3, "outbound-terminal", <<"t">>)>>
        /\ edges = WithIds(free)

\* three inbounds with free ports and serverIds
PortGraphs ==
    \E ports \in [1..3 -> {1, 2}], serverIds \in [1..3 -> {Absent, S1, S2}] :
        /\ nodes = [i \in 1..3 |->
                       [Node(i, "inbound", DistinctTags[i]) EXCEPT
                           !.port = ports[i], !.serverId = serverIds[i]]]
        /\ edges = <<>>

InitValidate ==
    /\ pc = "validate"
    /\ IdleSim
    /\ IdleDocuments
    /\ IdleEditor
    /\ input = NoInput
    /\ routing = NoRouting
    /\ sourceInboundTag = Absent
    /\ matched = FALSE
    /\ validation = NoValidation
    /\ \/ EdgeGraphs
       \/ TagGraphs
       \/ ReachGraphs
       \/ SelectorGraphs
       \/ ConnGraphs
       \/ PortGraphs

\* useValidation.ts lines 18-26, the timer callback: the result of
\* validateGraph is stored, and the empty result when the call raises
Validate ==
    /\ pc = "validate"
    /\ IF validateConfigThrows(nodes)
       THEN /\ validation' = emptyResult
            /\ pc' = "validation failed"
       ELSE /\ validation' = validateGraph(nodes, edges)
            /\ pc' = "validated"
    /\ UNCHANGED <<nodes, edges, input, currentNode, visited, path,
                   highlightNodeIds, highlightEdgeIds, result, routing,
                   sourceInboundTag, matched, documentVars,
                   editorVars>>

NextValidate == Validate

SpecValidate == InitValidate /\ [][NextValidate]_vars

----------------------------------------------------------------------------
(* Properties of the validation result                                     *)

HasError(nodeId, message) ==
    \E e \in Range(validation.errors) :
        e.nodeId = nodeId /\ e.message = message

\* two different nodes carry the same tag
ShareTag(m, n) ==
    /\ m.id # n.id
    /\ HasTagProperty(m) /\ HasTagProperty(n)
    /\ m.tag = n.tag

\* C9 (as stated): when two nodes share a tag, the errors hold a duplicate-tag
\* error for each of the two node ids and valid is false.
C9_DuplicateTagsReported ==
    pc = "validated" =>
        \A m \in Range(nodes), n \in Range(nodes) :
            ShareTag(m, n) =>
                /\ HasError(m.id, "Duplicate tag")
                /\ HasError(n.id, "Duplicate tag")
                /\ ~validation.valid

\* C9 (amended): when two nodes share a tag that is not blank (not empty and
\* not made of white space only), the errors hold a duplicate-tag error for
\* each of the two node ids and valid is false.
C9_DuplicateNonBlankTagsReported ==
    pc = "validated" =>
        \A m \in Range(nodes), n \in Range(nodes) :
            (ShareTag(m, n) /\ ~IsBlank(m.tag)) =>
                /\ HasError(m.id, "Duplicate tag")
                /\ HasError(n.id, "Duplicate tag")
                /\ ~validation.valid

\* the first and the third node share the tag a and both carry the error
C9_Witness ==
    /\ pc = "validated"
    /\ Len(nodes) = 3
    /\ ShareTag(nodes[1], nodes[3])
    /\ nodes[1].tag = <<"a">>
    /\ nodes[2].tag # <<"a">>
    /\ HasError(1, "Duplicate tag") /\ HasError(3, "Duplicate tag")
    /\ ~validation.valid

\* edges of the directed graph on the node list, outbound-proxy -> inbound
\* edges removed
TraversalEdges ==
    {<<e.source, e.target>> : e \in
        {f \in Range(edges) :
            /\ HasNode(f.source, nodes) /\ HasNode(f.target, nodes)
            /\ ~(/\ NodeType(f.source, nodes) = "outbound-proxy"
                 /\ NodeType(f.target, nodes) = "inbound")}}

Successors(S, E) == {p[2] : p \in {q \in E : q[1] \in S}}

RECURSIVE ReachableFrom(_, _)
ReachableFrom(S, E) ==
    LET T == S \cup Successors(S, E)
    IN IF T = S THEN S ELSE ReachableFrom(T, E)

OnCycle(id, E) == id \in ReachableFrom(Successors({id}, E), E)

HasDirectedCycle(E) == \E n \in Range(nodes) : OnCycle(n.id, E)

CycleErrorReported ==
    \E e \in Range(validation.errors) : e.message = "Cycle detected"

\* C10: validateGraph reports a cycle error iff the directed graph without
\* its outbound-proxy -> inbound edges has a directed cycle.
C10_CycleErrorIffCycle ==
    pc = "validated" => (CycleErrorReported <=> HasDirectedCycle(TraversalEdges))

\* a ring of three routing nodes has been reported
C10_Witness ==
    /\ pc = "validated"
    /\ \A i \in 1..3 : nodes[i].nodeType = "routing"
    /\ TraversalEdges = {<<1, 2>>, <<2, 3>>, <<3, 1>>}
    /\ CycleErrorReported

\* every edge of the edge list as a pair, proxy hops included
AllEdges == {<<e.source, e.target>> : e \in Range(edges)}

TerminalIds == {n.id : n \in {m \in Range(nodes) :
                                  m.nodeType = "outbound-terminal"}}

ReachesTerminal(id) == ReachableFrom({id}, AllEdges) \cap TerminalIds # {}

Unreachable == "INPUT node cannot reach any terminal OUTPUT"

HasWarning(nodeId, message) ==
    \E w \in Range(validation.warnings) :
        w.nodeId = nodeId /\ w.message = message

\* C11: an inbound gets the 'cannot reach any terminal OUTPUT' warning iff no
\* directed path over the edge list (proxy hops included) leads from it to an
\* outbound-terminal node; the message is a warning, never an error, and valid
\* is decided by the errors alone.
C11_UnreachableWarningIffNoPath ==
    pc = "validated" =>
        /\ \A n \in Range(nodes) :
               HasWarning(n.id, Unreachable) <=>
                   (n.nodeType = "inbound" /\ ~ReachesTerminal(n.id))
        /\ \A i \in Range(validation.errors) : i.message # Unreachable
        /\ validation.valid <=> validation.errors = <<>>

\* inbound 1 reaches the terminal only through the proxy hop 2 -> 3 and is
\* not warned, while nothing else is wrong with the graph
C11_Witness ==
    /\ pc = "validated"
    /\ Len(nodes) = 4
    /\ AllEdges = {<<1, 2>>, <<2, 3>>, <<3, 4>>}
    /\ ~HasWarning(1, Unreachable)
    /\ ~HasWarning(3, Unreachable)
    /\ validation.valid

\* C12 (as stated): validateGraph raises for no node/edge list, a balancer
\* whose selector list is missing included; were a run to fail, the stored
\* result would be the empty result.
C12_ValidateGraphNeverRaises ==
    /\ pc # "validation failed"
    /\ pc = "validation failed" => validation = emptyResult

\* the case of C12: the validation of a graph with a balancer whose data has
\* no selector list has raised and the empty result is stored
C12_RaisedOnMissingSelector ==
    /\ pc = "validation failed"
    /\ \E n \in Range(nodes) :
           n.nodeType = "balancer" /\ "selector" \in n.absent
    /\ validation = emptyResult

AllIssues == validation.errors \o validation.warnings \o validation.infos

\* the edge joins two nodes of the list whose types isValidConnection rejects
Rejected(e) ==
    /\ HasNode(e.source, nodes) /\ HasNode(e.target, nodes)
    /\ ~isValidConnection(getNodeById(e.source, nodes),
                          getNodeById(e.target, nodes)).valid

\* C13 (as stated): for every edge whose (source type, target type) pair
\* isValidConnection rejects, the validation result holds an issue for that
\* edge, read here in the weakest way: an issue of any level on the source or
\* on the target of the edge.
C13_RejectedEdgesReported ==
    pc = "validated" =>
        \A e \in Range(edges) :
            Rejected(e) =>
                \E i \in Range(AllIssues) : i.nodeId \in {e.source, e.target}

\* the case of C13: a graph with an edge from a balancer into a routing node
\* has been validated and the result holds no issue at all
C13_RejectedEdgeUnreported ==
    /\ pc = "validated"
    /\ \E e \in Range(edges) :
           /\ Rejected(e)
           /\ NodeType(e.source, nodes) = "balancer"
           /\ NodeType(e.target, nodes) = "routing"
    /\ AllIssues = <<>>

----------------------------------------------------------------------------
(* Export engine (utils/storage.ts)                                        *)
(*                                                                         *)
(* A transport is <<>> when absent and <<[network, security]>> otherwise;   *)
(* the ws / grpc / tls sub-settings, listen, users and sniffing are not     *)
(* modelled.  An optional member of a document is <<>> when it is not       *)
(* written; tags of exported nodes are not empty.                           *)

OutboundKinds == {"outbound-terminal", "outbound-proxy"}

\* lines 314-392: raw is written as tcp, and tcp without security gives {}
buildStreamSettings(transport) ==
    IF transport = Absent THEN <<>>
    ELSE LET network == IF transport[1].network = "raw" THEN "tcp"
                        ELSE transport[1].network
         IN IF network = "tcp" /\ transport[1].security = "none" THEN <<>>
            ELSE <<[network |-> network, security |-> transport[1].security]>>

\* lines 520-522: the outgoing edges in edge-list order
edgesFrom(nodeId, es) == SelectSeq(es, LAMBDA e : e.source = nodeId)

\* lines 528-532 and 701: nodeServerMap.get(nodeId)
getServerId(nodeId, ns) ==
    IF HasNode(nodeId, ns) THEN getNodeById(nodeId, ns).serverId ELSE Absent

isCrossGroupEdge(edge, ns) ==
    getServerId(edge.source, ns) # getServerId(edge.target, ns)

\* getIncomingTransport that takes the transport of any incoming edge
getIncomingTransport_AnyEdge(nodeId, es, ns) ==
    LET carrying == SelectSeq(es, LAMBDA e :
                        e.target = nodeId /\ e.transport # Absent)
    IN IF carrying = <<>> THEN Absent ELSE carrying[1].transport

\* lines 540-552: the transport of the first incoming cross-group edge that
\* carries one
getIncomingTransport(nodeId, es, ns) ==
    LET carrying == SelectSeq(es, LAMBDA e :
                        /\ e.target = nodeId
                        /\ isCrossGroupEdge(e, ns)
                        /\ e.transport # Absent)
    IN IF carrying = <<>> THEN Absent ELSE carrying[1].transport

\* lines 554-566
getOutgoingTransport(nodeId, es, ns) ==
    LET carrying == SelectSeq(es, LAMBDA e :
                        /\ e.source = nodeId
                        /\ isCrossGroupEdge(e, ns)
                        /\ e.transport # Absent)
    IN IF carrying = <<>> THEN Absent ELSE carrying[1].transport

\* selectorWith that pushes a tag the list holds already
RECURSIVE selectorWith_PushesTwice(_, _, _)
selectorWith_PushesTwice(selector, outEdges, ns) ==
    IF outEdges = <<>> THEN selector
    ELSE LET target == Head(outEdges).target
             pushes == /\ HasNode(target, ns)
                       /\ getNodeById(target, ns).nodeType \in OutboundKinds
         IN selectorWith_PushesTwice(
                IF pushes THEN Append(selector, getNodeById(target, ns).tag)
                ELSE selector,
                Tail(outEdges), ns)

\* lines 587-601: the selector copy grown by the tags of the connected
\* outbound nodes
RECURSIVE selectorWith(_, _, _)
selectorWith(selector, outEdges, ns) ==
    IF outEdges = <<>> THEN selector
    ELSE LET target == Head(outEdges).target
             pushes == /\ HasNode(target, ns)
                       /\ getNodeById(target, ns).nodeType \in OutboundKinds
                       /\ getNodeById(target, ns).tag \notin Range(selector)
         IN selectorWith(IF pushes
                         THEN Append(selector, getNodeById(target, ns).tag)
                         ELSE selector,
                         Tail(outEdges), ns)

\* lines 603-607
BalancerEntry(balNode, ns, es) ==
    [tag |-> balNode.tag,
     selector |-> selectorWith(balNode.selector, edgesFrom(balNode.id, es), ns),
     strategy |-> IF balNode.strategy # "random" THEN <<balNode.strategy>>
                  ELSE Absent]

\* lines 620-640: the rule that copies the predicates of a routing node
PredicateRule(routeData) ==
    [type |-> "field",
     domain |-> routeData.domain,
     ip |-> routeData.ip,
     port |-> routeData.port,
     protocol |-> routeData.protocol,
     network |-> routeData.network,
     inboundTag |-> IF routeData.inboundTag # Absent
                    THEN <<routeData.inboundTag>> ELSE <<>>,
     outboundTag |-> Absent,
     balancerTag |-> Absent]

\* lines 615-657: the rules of one routing node; an edge to a missing node
\* or to a routing node gives none, an edge to any other kind gives one
RoutingNodeRules(routeNode, ns, es) ==
    LET out == edgesFrom(routeNode.id, es)
        rule(edge) ==
            LET target == getNodeById(edge.target, ns)
            IN IF target.nodeType = "balancer"
               THEN [PredicateRule(routeNode.routing) EXCEPT
                        !.balancerTag = target.tag]
               ELSE IF target.nodeType \in OutboundKinds
               THEN [PredicateRule(routeNode.routing) EXCEPT
                        !.outboundTag = target.tag]
               ELSE PredicateRule(routeNode.routing)
    IN Flatten([i \in 1..Len(out) |->
           IF ~HasNode(out[i].target, ns) THEN <<>>
           ELSE IF getNodeById(out[i].target, ns).nodeType = "routing" THEN <<>>
           ELSE <<rule(out[i])>>])

\* lines 662-682: the rules of the direct inbound -> outbound edges
DirectRules(inNode, ns, es) ==
    LET out == edgesFrom(inNode.id, es)
    IN Flatten([i \in 1..Len(out) |->
           IF /\ HasNode(out[i].target, ns)
              /\ getNodeById(out[i].target, ns).nodeType \in OutboundKinds
           THEN <<[PredicateRule(NoRouting) EXCEPT
                      !.inboundTag = <<inNode.tag>>,
                      !.outboundTag = getNodeById(out[i].target, ns).tag]>>
           ELSE <<>>])

\* lines 570-685
buildRoutingRules(ns, es) ==
    LET routingNodes == OfKind(ns, "routing")
        balancerNodes == OfKind(ns, "balancer")
        inboundNodes == OfKind(ns, "inbound")
    IN [rules |->
            Flatten([i \in 1..Len(routingNodes) |->
                        RoutingNodeRules(routingNodes[i], ns, es)])
            \o Flatten([i \in 1..Len(inboundNodes) |->
                           DirectRules(inboundNodes[i], ns, es)]),
        balancers |->
            [i \in 1..Len(balancerNodes) |->
                BalancerEntry(balancerNodes[i], ns, es)]]

\* lines 751-838; all is the whole node list, from which nodeServerMap is
\* built
buildSingleConfig(ns, es, allEdges, all, filename) ==
    LET inboundNodes == OfKind(ns, "inbound")
        outboundNodes == SelectSeq(ns, LAMBDA n : n.nodeType \in OutboundKinds)
        inboundOf(n) ==
            LET edgeTransport == getIncomingTransport(n.id, allEdges, all)
            IN [tag |-> n.tag, protocol |-> n.protocol, port |-> n.port,
                streamSettings |->
                    buildStreamSettings(IF edgeTransport # Absent
                                        THEN edgeTransport ELSE n.transport)]
        outboundOf(n) ==
            LET edgeTransport ==
                    IF n.nodeType = "outbound-proxy"
                    THEN getOutgoingTransport(n.id, allEdges, all)
                    ELSE Absent
            IN [tag |-> n.tag, protocol |-> n.protocol,
                streamSettings |->
                    buildStreamSettings(IF edgeTransport # Absent
                                        THEN edgeTransport ELSE n.transport)]
        built == buildRoutingRules(ns, es)
    IN [filename |-> filename,
        config |->
            [inbounds |-> [i \in 1..Len(inboundNodes) |->
                              inboundOf(inboundNodes[i])],
             outbounds |-> [i \in 1..Len(outboundNodes) |->
                               outboundOf(outboundNodes[i])],
             rules |-> built.rules,
             balancers |-> built.balancers]]

\* lines 709-718: the node has a serverId that names a server of the list
Assigned(n, srv) ==
    n.serverId # Absent /\ \E i \in 1..Len(srv) : srv[i].id = n.serverId

\* the keys of nodesByServer in insertion order
RECURSIVE GroupKeys(_, _, _)
GroupKeys(ns, srv, keys) ==
    IF ns = <<>> THEN keys
    ELSE GroupKeys(Tail(ns), srv,
                   IF Assigned(Head(ns), srv) /\ Head(ns).serverId \notin Range(keys)
                   THEN Append(keys, Head(ns).serverId) ELSE keys)

\* lines 732-734 and 742-744: the edges with both endpoints in the group
EdgesWithin(group, es) ==
    LET ids == {n.id : n \in Range(group)}
    IN SelectSeq(es, LAMBDA e : e.source \in ids /\ e.target \in ids)

\* server names of the model are lower-case letters and digits, which the
\* file name keeps as they are
ServerIndex(serverId, srv) ==
    CHOOSE i \in 1..Len(srv) : srv[i].id = serverId

\* lines 689-749 (the advanced mode)
exportConfig(ns, es, srv) ==
    LET configNodes == SelectSeq(ns, LAMBDA n : n.nodeType # "device")
        keys == GroupKeys(configNodes, srv, <<>>)
        unassigned == SelectSeq(configNodes, LAMBDA n : ~Assigned(n, srv))
        serverNodes(k) == SelectSeq(configNodes, LAMBDA n :
                              Assigned(n, srv) /\ n.serverId = k)
    IN IF keys = <<>>
       THEN <<buildSingleConfig(configNodes, es, es, ns, <<"config.json">>)>>
       ELSE [i \in 1..Len(keys) |->
                buildSingleConfig(serverNodes(keys[i]),
                                  EdgesWithin(serverNodes(keys[i]), es), es, ns,
                                  <<srv[ServerIndex(keys[i], srv)].name,
                                    "_config.json">>)]
            \o (IF unassigned # <<>>
                THEN <<buildSingleConfig(unassigned, EdgesWithin(unassigned, es),
                                         es, ns, <<"unassigned_config.json">>)>>
                ELSE <<>>)

----------------------------------------------------------------------------
(* Import engine (utils/validation.ts, importXrayConfig)                   *)
(*                                                                         *)
(* The document is the value JSON.parse gives for the exported text; node   *)
(* ids (uuidv4 in the code) are the positions in the imported node list.    *)

TERMINAL_PROTOCOLS == {"freedom", "blackhole", "dns"}
INBOUND_PROTOCOLS ==
    {"http", "socks", "vless", "vmess", "trojan", "shadowsocks",
     "dokodemo-door"}

defaultTransport == <<[network |-> "raw", security |-> "none"]>>

\* lines 700-756
parseTransport(stream) ==
    IF stream = <<>> THEN defaultTransport
    ELSE LET mappedNetwork == IF stream[1].network = "tcp" THEN "raw"
                              ELSE stream[1].network
         IN <<[network |-> IF mappedNetwork \in {"raw", "ws", "grpc", "xhttp"}
                           THEN mappedNetwork ELSE "raw",
               security |-> IF stream[1].security \in {"none", "tls", "reality"}
                            THEN stream[1].security ELSE "none"]>>

DefaultInboundPort == 443

\* lines 774-785 and 949-954
parseInbound(inbound, nodeId) ==
    [Node(nodeId, "inbound", inbound.tag) EXCEPT
        !.protocol = inbound.protocol,
        !.port = IF inbound.port = 0 THEN DefaultInboundPort ELSE inbound.port,
        !.transport = parseTransport(inbound.streamSettings)]

\* lines 815-826 and 959-974
parseOutbound(outbound, nodeId) ==
    LET isTerminal == outbound.protocol \in TERMINAL_PROTOCOLS
    IN [Node(nodeId,
             IF isTerminal THEN "outbound-terminal" ELSE "outbound-proxy",
             outbound.tag) EXCEPT
           !.protocol = outbound.protocol,
           !.transport = IF isTerminal THEN Absent
                         ELSE parseTransport(outbound.streamSettings)]

DecimalDigits == <<"1", "2", "3", "4", "5", "6", "7", "8", "9">>

\* lines 830-840; index counts from 0
parseRoutingRule(rule, index, nodeId) ==
    [Node(nodeId, "routing",
          <<"r", "u", "l", "e", "-", DecimalDigits[index + 1]>>) EXCEPT
        !.routing =
            [domain |-> rule.domain,
             ip |-> rule.ip,
             port |-> rule.port,
             protocol |-> rule.protocol,
             network |-> IF rule.network \in {<<"tcp">>, <<"udp">>}
                         THEN rule.network ELSE Absent,
             inboundTag |-> IF Len(rule.inboundTag) > 0
                            THEN rule.inboundTag[1] ELSE Absent]]

\* Map.prototype.set on tagToNodeId, a list of [tag, id] in insertion order
MapSet(map, tag, id) ==
    IF \E i \in 1..Len(map) : map[i].tag = tag
    THEN [i \in 1..Len(map) |->
             IF map[i].tag = tag THEN [tag |-> tag, id |-> id] ELSE map[i]]
    ELSE Append(map, [tag |-> tag, id |-> id])

MapHas(map, tag) == \E i \in 1..Len(map) : map[i].tag = tag

MapGet(map, tag) == map[CHOOSE i \in 1..Len(map) : map[i].tag = tag].id

\* an edge of the imported graph
ImportedEdge(source, target) == Edge(source, target, Absent)

\* lines 939-955: st is [nodes, edges, map]
RECURSIVE ImportInbounds(_, _)
ImportInbounds(inbounds, st) ==
    IF inbounds = <<>> THEN st
    ELSE IF Head(inbounds).protocol \notin INBOUND_PROTOCOLS
    THEN ImportInbounds(Tail(inbounds), st)
    ELSE LET nodeId == Len(st.nodes) + 1
         IN ImportInbounds(Tail(inbounds),
                [st EXCEPT
                    !.nodes = Append(@, parseInbound(Head(inbounds), nodeId)),
                    !.map = MapSet(@, Head(inbounds).tag, nodeId)])

\* lines 958-975
RECURSIVE ImportOutbounds(_, _)
ImportOutbounds(outbounds, st) ==
    IF outbounds = <<>> THEN st
    ELSE LET nodeId == Len(st.nodes) + 1
         IN ImportOutbounds(Tail(outbounds),
                [st EXCEPT
                    !.nodes = Append(@, parseOutbound(Head(outbounds), nodeId)),
                    !.map = MapSet(@, Head(outbounds).tag, nodeId)])

\* lines 995-1009: the edges from a balancer to the outbound nodes whose tag
\* equals or starts with a selector pattern, pattern by pattern in the order
\* of tagToNodeId
SelectorEdges(nodeId, selector, st) ==
    Flatten([k \in 1..Len(selector) |->
        Flatten([i \in 1..Len(st.map) |->
            IF /\ (st.map[i].tag = selector[k]
                       \/ StartsWith(st.map[i].tag, selector[k]))
               /\ getNodeById(st.map[i].id, st.nodes).nodeType \in OutboundKinds
            THEN <<ImportedEdge(nodeId, st.map[i].id)>>
            ELSE <<>>])])

\* lines 978-1010
RECURSIVE ImportBalancers(_, _)
ImportBalancers(balancers, st) ==
    IF balancers = <<>> THEN st
    ELSE LET balancer == Head(balancers)
             nodeId == Len(st.nodes) + 1
             node == [Node(nodeId, "balancer", balancer.tag) EXCEPT
                         !.strategy = IF balancer.strategy # Absent
                                      THEN balancer.strategy[1] ELSE "random",
                         !.selector = balancer.selector]
             entered == [st EXCEPT !.nodes = Append(@, node),
                                   !.map = MapSet(@, balancer.tag, nodeId)]
         IN ImportBalancers(Tail(balancers),
                [entered EXCEPT
                    !.edges = @ \o SelectorEdges(nodeId, balancer.selector,
                                                 entered)])

\* lines 1031-1040: the edges from the inbounds named by the rule
EdgesFromNamed(inboundTag, target, st) ==
    Flatten([k \in 1..Len(inboundTag) |->
        IF MapHas(st.map, inboundTag[k])
        THEN <<ImportedEdge(MapGet(st.map, inboundTag[k]), target)>>
        ELSE <<>>])

\* lines 1044-1067: the edges to the nodes named by outboundTag and
\* balancerTag
EdgesToNamed(rule, source, st) ==
    (IF rule.outboundTag # Absent /\ MapHas(st.map, rule.outboundTag)
     THEN <<ImportedEdge(source, MapGet(st.map, rule.outboundTag))>>
     ELSE <<>>)
    \o (IF rule.balancerTag # Absent /\ MapHas(st.map, rule.balancerTag)
        THEN <<ImportedEdge(source, MapGet(st.map, rule.balancerTag))>>
        ELSE <<>>)

\* lines 1069-1082: createRoutingNodes is false
CollapsedEdges(rule, st) ==
    IF rule.outboundTag # Absent /\ rule.inboundTag # <<>>
    THEN Flatten([k \in 1..Len(rule.inboundTag) |->
             IF /\ MapHas(st.map, rule.inboundTag[k])
                /\ MapHas(st.map, rule.outboundTag)
             THEN <<ImportedEdge(MapGet(st.map, rule.inboundTag[k]),
                                 MapGet(st.map, rule.outboundTag))>>
             ELSE <<>>])
    ELSE <<>>

\* lines 1013-1084; index counts from 0
RECURSIVE ImportRules(_, _, _, _)
ImportRules(rules, index, withNodes, st) ==
    IF rules = <<>> THEN st
    ELSE LET rule == Head(rules)
             routeNodeId == Len(st.nodes) + 1
         IN ImportRules(Tail(rules), index + 1, withNodes,
                IF withNodes
                THEN [st EXCEPT
                        !.nodes = Append(@, parseRoutingRule(rule, index,
                                                             routeNodeId)),
                        !.edges = @ \o EdgesFromNamed(rule.inboundTag,
                                                      routeNodeId, st)
                                    \o EdgesToNamed(rule, routeNodeId, st)]
                ELSE [st EXCEPT !.edges = @ \o CollapsedEdges(rule, st)])

\* lines 906-1118, for a document that holds inbounds or outbounds
importXrayConfig(doc, withNodes) ==
    LET st == ImportRules(doc.rules, 0, withNodes,
                  ImportBalancers(doc.balancers,
                      ImportOutbounds(doc.outbounds,
                          ImportInbounds(doc.inbounds,
                              [nodes |-> <<>>, edges |-> <<>>, map |-> <<>>]))))
    IN [nodes |-> st.nodes, edges |-> WithIds(st.edges)]

----------------------------------------------------------------------------
(* Specification SpecDocuments: exportConfig on bounded graphs, and        *)
(* importXrayConfig on exported and on bounded documents                    *)

graphVars ==
    <<nodes, edges, input, currentNode, visited, path, highlightNodeIds,
      highlightEdgeIds, result, routing, sourceInboundTag, matched,
      validation>>

\* ToastContainer.tsx line 611: exportConfig(nodes, edges, servers)
Export ==
    /\ pc = "export"
    /\ exported' = exportConfig(nodes, edges, servers)
    /\ pc' = "exported"
    /\ UNCHANGED <<graphVars, editorVars, servers, config, createRoutingNodes, imported,
                   reexported>>

\* configToJson writes the document of a single-server export, which the
\* import dialog reads back with either setting of createRoutingNodes
OpenExported ==
    /\ pc = "exported"
    /\ Len(exported) = 1
    /\ config' = exported[1].config
    /\ \E withNodes \in BOOLEAN : createRoutingNodes' = withNodes
    /\ pc' = "import"
    /\ UNCHANGED <<graphVars, editorVars, servers, exported, imported, reexported>>

\* ImportDialog.tsx line 76: importXrayConfig(text, options)
Import ==
    /\ pc = "import"
    /\ imported' = importXrayConfig(config, createRoutingNodes)
    /\ pc' = "imported"
    /\ UNCHANGED <<graphVars, editorVars, servers, exported, config, createRoutingNodes,
                   reexported>>

\* exportConfig on the imported graph, which has no servers
ReExport ==
    /\ pc = "imported"
    /\ reexported' = exportConfig(imported.nodes, imported.edges, <<>>)
    /\ pc' = "reexported"
    /\ UNCHANGED <<graphVars, editorVars, servers, exported, config, createRoutingNodes,
                   imported>>

NextDocuments == Export \/ OpenExported \/ Import \/ ReExport

WsTransport == <<[network |-> "ws", security |-> "none"]>>
RawTransport == <<[network |-> "raw", security |-> "none"]>>
TlsTransport == <<[network |-> "raw", security |-> "tls"]>>

Server(id) == [id |-> id, name |-> id[1]]

DocRoutings ==
    { [NoRouting EXCEPT !.domain = <<DomainRule("full", DomX)>>],
      [NoRouting EXCEPT !.inboundTag = TagA, !.network = <<"udp">>] }

DocSelectors == {<<>>, <<(<<"p">>)>>, <<(<<"p", "x">>)>>, <<(<<"t">>), (<<"t">>)>>}

\* two inbounds, a routing node, a balancer, two proxy outbounds, a terminal
\* outbound and a device; front, proxy and back are the serverIds of the
\* nodes before the proxy px, of px, and of the nodes behind it
DocNodes(r, selector, strategy, front, proxy, back, inline) ==
    << [Node(1, "inbound", TagA) EXCEPT !.serverId = front],
       [Node(2, "inbound", TagB) EXCEPT !.serverId = back,
                                        !.transport = inline],
       [Node(3, "routing", <<"r", "1">>) EXCEPT !.routing = r,
                                               !.serverId = front],
       [Node(4, "balancer", <<"l", "b">>) EXCEPT
            !.selector = selector, !.strategy = strategy, !.serverId = front],
       [Node(5, "outbound-proxy", <<"p", "x">>) EXCEPT
            !.serverId = proxy, !.transport = inline],
       [Node(6, "outbound-proxy", <<"p", "y">>) EXCEPT !.serverId = front],
       [Node(7, "outbound-terminal", <<"t">>) EXCEPT !.serverId = back],
       [Node(8, "device", Absent) EXCEPT !.serverId = front] >>

PlainEdges ==
    { Edge(1, 3, Absent), Edge(1, 5, Absent), Edge(1, 4, Absent),
      Edge(3, 4, Absent), Edge(3, 5, Absent), Edge(3, 7, Absent),
      Edge(3, 3, Absent), Edge(3, 1, Absent), Edge(3, 8, Absent),
      Edge(3, Ghost, Absent), Edge(4, 5, Absent), Edge(4, 6, Absent),
      Edge(4, 7, Absent), Edge(4, 3, Absent) }

\* graphs without servers
SingleServerGraphs ==
    \E r \in DocRoutings, selector \in DocSelectors,
       strategy \in {"random", "roundRobin"},
       free \in SeqsUpTo(PlainEdges, MaxDocEdges) :
        /\ nodes = DocNodes(r, selector, strategy, Absent, Absent, Absent,
                            Absent)
        /\ edges = WithIds(free)
        /\ servers = <<>>

GroupEdges ==
    { Edge(1, 3, Absent), Edge(1, 5, Absent), Edge(3, 7, Absent),
      Edge(4, 7, Absent), Edge(4, 5, Absent), Edge(3, 5, Absent),
      [Edge(3, 5, Absent) EXCEPT !.transport = WsTransport],
      Edge(5, 2, Absent),
      [Edge(5, 2, Absent) EXCEPT !.transport = WsTransport],
      [Edge(5, 2, Absent) EXCEPT !.transport = RawTransport],
      [Edge(8, 2, Absent) EXCEPT !.transport = WsTransport] }

\* graphs whose nodes carry serverIds, with and without the servers they
\* name, and edges that carry transports
ServerGraphs ==
    \E front \in {Absent, S1}, proxy \in {Absent, S1, S9},
       back \in {Absent, S2, S9}, inline \in {Absent, TlsTransport},
       srv \in {<<>>, <<Server(S1), Server(S2)>>},
       free \in SeqsUpTo(GroupEdges, MaxDocEdges) :
        /\ nodes = DocNodes(NoRouting, <<>>, "random", front, proxy, back,
                            inline)
        /\ edges = WithIds(free)
        /\ servers = srv

DocRule(inboundTag, outboundTag, balancerTag) ==
    [PredicateRule(NoRouting) EXCEPT
        !.domain = IF inboundTag = <<>> THEN <<DomainRule("full", DomX)>>
                   ELSE <<>>,
        !.inboundTag = inboundTag,
        !.outboundTag = outboundTag,
        !.balancerTag = balancerTag]

DocRules ==
    { DocRule(i, o, Absent) :
        i \in {<<>>, <<TagA>>, <<TagA, TagB>>, <<(<<"z">>)>>},
        o \in {<<"t">>, <<"p", "x">>, <<"z">>} }
    \cup { DocRule(i, Absent, <<"l", "b">>) : i \in {<<>>, <<TagA>>} }

\* documents written by hand: two inbounds, a proxy and a terminal outbound,
\* a balancer with a prefix selector and up to MaxRules rules
Documents ==
    \E rules \in SeqsUpTo(DocRules, MaxRules), withNodes \in BOOLEAN :
        /\ config =
              [inbounds |->
                  <<[tag |-> TagA, protocol |-> "vless", port |-> 1,
                     streamSettings |-> <<>>],
                    [tag |-> TagB, protocol |-> "socks", port |-> 2,
                     streamSettings |-> <<>>]>>,
               outbounds |->
                  <<[tag |-> <<"p", "x">>, protocol |-> "vless",
                     streamSettings |-> <<>>],
                    [tag |-> <<"t">>, protocol |-> "freedom",
                     streamSettings |-> <<>>]>>,
               rules |-> rules,
               balancers |->
                  <<[tag |-> <<"l", "b">>, selector |-> <<(<<"p">>)>>,
                     strategy |-> Absent]>>]
        /\ createRoutingNodes = withNodes

InitDocuments ==
    /\ IdleSim
    /\ IdleEditor
    /\ input = NoInput
    /\ routing = NoRouting
    /\ sourceInboundTag = Absent
    /\ matched = FALSE
    /\ validation = NoValidation
    /\ exported = <<>>
    /\ imported = NoImport
    /\ reexported = <<>>
    /\ \/ /\ pc = "export"
          /\ config = NoConfig
          /\ createRoutingNodes = TRUE
          /\ SingleServerGraphs \/ ServerGraphs
       \/ /\ pc = "import"
          /\ nodes = <<>>
          /\ edges = <<>>
          /\ servers = <<>>
          /\ Documents

SpecDocuments == InitDocuments /\ [][NextDocuments]_vars

----------------------------------------------------------------------------
(* Properties of export and import                                         *)

\* every node of the graph carries the same serverId
SingleServer == \A m \in Range(nodes), n \in Range(nodes) : m.serverId = n.serverId

\* the exported document has been imported with createRoutingNodes = true and
\* the imported graph has been exported again
RoundTripDone ==
    /\ pc = "reexported"
    /\ exported # <<>>
    /\ createRoutingNodes

\* C14 (as stated): for a single-server graph, export, import with
\* createRoutingNodes = true and export again give a document equal to the
\* first one in its inbounds, outbounds, routing rules (content and order)
\* and balancers (tags, selectors, strategy), prefix selectors included.
C14_RoundTripIsIdentity ==
    (RoundTripDone /\ SingleServer) =>
        /\ Len(reexported) = 1
        /\ reexported[1].config.inbounds = exported[1].config.inbounds
        /\ reexported[1].config.outbounds = exported[1].config.outbounds
        /\ reexported[1].config.rules = exported[1].config.rules
        /\ reexported[1].config.balancers = exported[1].config.balancers

\* the case of C14: a balancer that declares the prefix selector p and has no
\* edge of its own, in a graph whose only edge leads from the routing node to
\* the terminal outbound, comes back with the selector p, px, py
C14_PrefixSelectorGrows ==
    /\ RoundTripDone /\ SingleServer
    /\ Len(edges) = 1 /\ edges[1].source = 3 /\ edges[1].target = 7
    /\ exported[1].config.balancers[1].selector = <<(<<"p">>)>>
    /\ reexported[1].config.balancers[1].selector =
          <<(<<"p">>), (<<"p", "x">>), (<<"p", "y">>)>>
    /\ reexported[1].config.rules = exported[1].config.rules

\* the edges whose endpoints carry the same serverId
SameGroupEdges == SelectSeq(edges, LAMBDA e : ~isCrossGroupEdge(e, nodes))

\* rules and balancers of every document of an export
RoutingOf(docs) ==
    [i \in 1..Len(docs) |->
        [filename |-> docs[i].filename,
         rules |-> docs[i].config.rules,
         balancers |-> docs[i].config.balancers]]

\* C15 (as stated): an edge whose endpoints carry different serverId values
\* contributes no rule and no selector entry to any document, the unassigned
\* and the fallback document included: the rules and balancers of every
\* document are those of the export of the graph without its cross-group
\* edges.
C15_CrossGroupEdgesContributeNothing ==
    pc = "exported" =>
        RoutingOf(exported) =
            RoutingOf(exportConfig(nodes, SameGroupEdges, servers))

\* the case of C15: no server is defined, the routing node has no serverId
\* and the proxy px carries the serverId s9; the edge between them has
\* written a rule to the fallback document
C15_StaleServerIdEdgeWritesRule ==
    /\ pc = "exported"
    /\ servers = <<>>
    /\ Len(edges) = 1 /\ edges[1].source = 3 /\ edges[1].target = 5
    /\ nodes[3].serverId = Absent /\ nodes[5].serverId = S9
    /\ Len(exported) = 1
    /\ exported[1].filename = <<"config.json">>
    /\ Len(exported[1].config.rules) = 1
    /\ exported[1].config.rules[1].outboundTag = nodes[5].tag

\* the nodes compiled into the i-th document of the export
GroupOf(i) ==
    LET configNodes == SelectSeq(nodes, LAMBDA n : n.nodeType # "device")
        keys == GroupKeys(configNodes, servers, <<>>)
    IN IF keys = <<>> THEN configNodes
       ELSE IF i <= Len(keys)
       THEN SelectSeq(configNodes, LAMBDA n :
                Assigned(n, servers) /\ n.serverId = keys[i])
       ELSE SelectSeq(configNodes, LAMBDA n : ~Assigned(n, servers))

\* the edges with both endpoints in the group of the i-th document
LocalEdges(i) == EdgesWithin(GroupOf(i), edges)

KindOf(id, i) == NodeType(id, GroupOf(i))

\* the rule the claim expects for a local edge, none when it expects none
ExpectedRule(e, i) ==
    LET source == getNodeById(e.source, GroupOf(i))
        target == getNodeById(e.target, GroupOf(i))
    IN IF KindOf(e.source, i) = "routing" /\ KindOf(e.target, i) \in OutboundKinds
       THEN <<[PredicateRule(source.routing) EXCEPT !.outboundTag = target.tag]>>
       ELSE IF KindOf(e.source, i) = "routing" /\ KindOf(e.target, i) = "balancer"
       THEN <<[PredicateRule(source.routing) EXCEPT !.balancerTag = target.tag]>>
       ELSE IF KindOf(e.source, i) = "inbound" /\ KindOf(e.target, i) \in OutboundKinds
       THEN <<[PredicateRule(NoRouting) EXCEPT
                  !.inboundTag = <<source.tag>>, !.outboundTag = target.tag]>>
       ELSE <<>>

ExpectedRules(i) ==
    Flatten([k \in 1..Len(LocalEdges(i)) |-> ExpectedRule(LocalEdges(i)[k], i)])

Count(s, x) == Cardinality({k \in 1..Len(s) : s[k] = x})

SameElements(s, t) ==
    \A x \in Range(s) \cup Range(t) : Count(s, x) = Count(t, x)

NamesOneTarget(rule) ==
    (rule.outboundTag # Absent) # (rule.balancerTag # Absent)

\* C16 (as stated): the rules of a document are one rule for every local edge
\* from a routing node to an outbound or a balancer (with the predicates of
\* the routing node), none for a routing -> routing edge, and one rule
\* {inboundTag: [tag], outboundTag} for every local inbound -> outbound edge;
\* every rule names exactly one of outboundTag and balancerTag.
C16_OneRulePerRoutedEdge ==
    pc = "exported" =>
        \A i \in 1..Len(exported) :
            /\ SameElements(exported[i].config.rules, ExpectedRules(i))
            /\ \A rule \in Range(exported[i].config.rules) : NamesOneTarget(rule)

\* the case of C16: the only edge of a graph without servers leads from the
\* routing node into an inbound, and the document holds a rule that names
\* neither an outboundTag nor a balancerTag
C16_RuleWithoutTarget ==
    /\ pc = "exported"
    /\ SingleServer
    /\ Len(edges) = 1 /\ edges[1].source = 3 /\ edges[1].target = 1
    /\ Len(exported[1].config.rules) = 1
    /\ exported[1].config.rules[1].outboundTag = Absent
    /\ exported[1].config.rules[1].balancerTag = Absent

\* tags of the outbound nodes the balancer has a local edge to
ConnectedTags(balNode, i) ==
    {getNodeById(e.target, GroupOf(i)).tag : e \in
        {f \in Range(LocalEdges(i)) :
            f.source = balNode.id /\ KindOf(f.target, i) \in OutboundKinds}}

\* the entry is the one the claim describes for the balancer node
EntryFor(entry, balNode, i) ==
    LET declared == balNode.selector
        added == SubSeq(entry.selector, Len(declared) + 1, Len(entry.selector))
    IN /\ entry.tag = balNode.tag
       /\ Len(entry.selector) >= Len(declared)
       /\ SubSeq(entry.selector, 1, Len(declared)) = declared
       /\ Range(added) = ConnectedTags(balNode, i) \ Range(declared)
       /\ NoDuplicates(added)
       /\ entry.strategy = IF balNode.strategy = "random" THEN Absent
                           ELSE <<balNode.strategy>>

CarryingEdges(n, incoming) ==
    {k \in 1..Len(edges) :
        /\ IF incoming THEN edges[k].target = n.id ELSE edges[k].source = n.id
        /\ getServerId(edges[k].source, nodes) # getServerId(edges[k].target, nodes)
        /\ edges[k].transport # Absent}

\* the stream settings a transport is written as: raw becomes tcp, and plain
\* tcp without security is left out
WrittenAs(streamSettings, transport) ==
    IF transport = Absent THEN streamSettings = Absent
    ELSE IF /\ transport[1].network \in {"raw", "tcp"}
            /\ transport[1].security = "none"
    THEN streamSettings = Absent
    ELSE /\ Len(streamSettings) = 1
         /\ streamSettings[1].security = transport[1].security
         /\ streamSettings[1].network =
               IF transport[1].network = "raw" THEN "tcp"
               ELSE transport[1].network

\* edge > node-inline > default for the node n and its entry
FollowsPrecedence(entry, n, carrying) ==
    /\ entry.tag = n.tag
    /\ IF carrying # {}
       THEN \E k \in carrying : WrittenAs(entry.streamSettings, edges[k].transport)
       ELSE WrittenAs(entry.streamSettings, n.transport)

\* C18: the stream settings of an exported inbound are built from the
\* transport of an incoming edge between different serverIds when one carries
\* a transport, otherwise from the inline transport of the node, otherwise
\* there are none; a proxy outbound follows the same order with its outgoing
\* edges and a terminal outbound uses its inline transport only; the
\* transport of a same-group edge is never used, and raw is written as tcp.
C18_TransportPrecedence ==
    pc = "exported" =>
        \A i \in 1..Len(exported) :
            LET inboundNodes == OfKind(GroupOf(i), "inbound")
                outboundNodes == SelectSeq(GroupOf(i), LAMBDA n :
                                     n.nodeType \in OutboundKinds)
                doc == exported[i].config
            IN /\ Len(doc.inbounds) = Len(inboundNodes)
               /\ Len(doc.outbounds) = Len(outboundNodes)
               /\ \A k \in 1..Len(inboundNodes) :
                      FollowsPrecedence(doc.inbounds[k], inboundNodes[k],
                          CarryingEdges(inboundNodes[k], TRUE))
               /\ \A k \in 1..Len(outboundNodes) :
                      FollowsPrecedence(doc.outbounds[k], outboundNodes[k],
                          IF outboundNodes[k].nodeType = "outbound-proxy"
                          THEN CarryingEdges(outboundNodes[k], FALSE)
                          ELSE {})

\* the inbound b of server s2 declares raw with tls inline and its incoming
\* edge from the proxy px of server s1 carries ws: the document of s2 holds
\* ws for b, the document of s1 holds ws for px, and the terminal outbound
\* has no stream settings
C18_Witness ==
    /\ pc = "exported"
    /\ Len(servers) = 2
    /\ Len(edges) = 1
    /\ edges[1].source = 5 /\ edges[1].target = 2
    /\ edges[1].transport = WsTransport
    /\ nodes[5].serverId = S1 /\ nodes[2].serverId = S2
    /\ nodes[2].transport = TlsTransport
    /\ Len(exported) = 2
    /\ \E x \in Range(exported[2].config.inbounds) :
          /\ x.tag = TagB
          /\ x.streamSettings = <<[network |-> "ws", security |-> "none"]>>
    /\ \E x \in Range(exported[1].config.outbounds) :
          /\ x.tag = <<"p", "x">>
          /\ x.streamSettings = <<[network |-> "ws", security |-> "none"]>>
    /\ \E x \in Range(exported[2].config.outbounds) :
          /\ x.tag = <<"t">>
          /\ x.streamSettings = Absent

\* the imported nodes of the given kinds that carry the tag
ImportedNamed(tag, kinds) ==
    {n \in Range(imported.nodes) : n.tag = tag /\ n.nodeType \in kinds}

\* the imported inbounds the rule names
RuleInbounds(rule) ==
    UNION {ImportedNamed(rule.inboundTag[j], {"inbound"}) :
              j \in 1..Len(rule.inboundTag)}

\* the imported nodes the rule sends to
RuleTargets(rule) ==
    (IF rule.outboundTag = Absent THEN {}
     ELSE ImportedNamed(rule.outboundTag, OutboundKinds))
    \cup (IF rule.balancerTag = Absent THEN {}
          ELSE ImportedNamed(rule.balancerTag, {"balancer"}))

ImportedHasEdge(source, target) ==
    \E e \in Range(imported.edges) : e.source = source /\ e.target = target

\* C19 (as stated): with createRoutingNodes the import creates one routing
\* node per rule, with an edge from every inbound the rule names and an edge
\* to the node its outboundTag or balancerTag names; without it the import
\* creates no routing node and the graph has, for every rule, an edge from
\* each inbound the rule names to the target of the rule.
C19_ImportKeepsEveryRule ==
    pc = "imported" =>
        LET routingNodes == OfKind(imported.nodes, "routing")
        IN IF createRoutingNodes
           THEN /\ Len(routingNodes) = Len(config.rules)
                /\ \A k \in 1..Len(config.rules) :
                       /\ \A n \in RuleInbounds(config.rules[k]) :
                              ImportedHasEdge(n.id, routingNodes[k].id)
                       /\ \A n \in RuleTargets(config.rules[k]) :
                              ImportedHasEdge(routingNodes[k].id, n.id)
           ELSE /\ routingNodes = <<>>
                /\ \A k \in 1..Len(config.rules) :
                       \A m \in RuleInbounds(config.rules[k]),
                          n \in RuleTargets(config.rules[k]) :
                           ImportedHasEdge(m.id, n.id)

\* the case of C19: the document holds the single rule that sends inbound a
\* to the balancer lb; imported without routing nodes, the graph holds the
\* inbound and the balancer and no edge that leaves the inbound
C19_BalancerRuleLost ==
    /\ pc = "imported"
    /\ ~createRoutingNodes
    /\ config.rules = <<DocRule(<<TagA>>, Absent, <<"l", "b">>)>>
    /\ ImportedNamed(TagA, {"inbound"}) # {}
    /\ ImportedNamed(<<"l", "b">>, {"balancer"}) # {}
    /\ \A e \in Range(imported.edges) :
          e.source \notin {n.id : n \in ImportedNamed(TagA, {"inbound"})}

----------------------------------------------------------------------------
(* Specification SpecComponents: runSimulation, validateGraph and          *)
(* exportConfig, each called on the graph of the store                     *)

\* an inbound whose two outgoing edges carry free priorities, so that the
\* priority order and the list order differ
PriorityGraphs ==
    \E p1 \in Priorities, p2 \in Priorities, t \in {3, 6, 8} :
        Given(SimNodes(NoRouting, NoRouting, <<>>, "random"),
              <<Edge(1, t, p1), Edge(1, 8, p2), Edge(3, 8, Absent)>>,
              NoInput)

\* the inbound a has no outgoing edge; the request is free and may enter at
\* either inbound
DeadEndGraphs ==
    \E in \in [domain : {DomX, DomY}, protocol : {"tcp", "udp"},
                port : {1, 2}, inboundTag : {TagA, TagB}],
       t \in {1, 3, 8} :
        Given(SimNodes(NoRouting, NoRouting, <<>>, "random"),
              <<Edge(2, t, Absent), Edge(3, 8, Absent)>>, in)

InitComponents ==
    /\ pc \in {"start", "validate", "export"}
    /\ IdleSim
    /\ IdleDocuments
    /\ IdleEditor
    /\ routing = NoRouting
    /\ sourceInboundTag = Absent
    /\ matched = FALSE
    /\ validation = NoValidation
    /\ \/ SuccessorGraphs
       \/ PriorityGraphs
       \/ DeadEndGraphs

NextComponents == NextSim \/ NextValidate \/ Export

SpecComponents == InitComponents /\ [][NextComponents]_vars

----------------------------------------------------------------------------
(* Editor: the project store (store/useStore.ts, part_010), the undo       *)
(* history (store/useHistoryStore.ts), the connect handler of the canvas   *)
(* (components/Canvas.tsx) and the validation hook (hooks/useValidation.ts) *)
(*                                                                         *)
(* The selected flag of the nodes is kept as the set of the ids that carry *)
(* it; a snapshot of the node list holds that set with the list.           *)

MaxOps == 4            \* editor operations of a session
MaxNodes == 3          \* nodes added in a session
MaxEdits == 2          \* graph edits while the validation hook is observed

MAX_HISTORY == 50

\* lines 26-33
takeSnapshot ==
    [nodes |-> nodes, edges |-> edges, servers |-> servers,
     selected |-> selection]

\* lines 35-41
snapshotsEqual(a, b) ==
    /\ a.nodes = b.nodes /\ a.selected = b.selected
    /\ a.edges = b.edges
    /\ a.servers = b.servers

\* lines 43-62
pushHistory ==
    IF paused
    THEN UNCHANGED <<past, future, lastSnapshot>>
    ELSE IF lastSnapshot # <<>> /\ snapshotsEqual(takeSnapshot, lastSnapshot[1])
    THEN UNCHANGED <<past, future, lastSnapshot>>
    ELSE /\ past' = LET pushed == Append(past, takeSnapshot)
                    IN IF Len(pushed) > MAX_HISTORY THEN Tail(pushed)
                       ELSE pushed
         /\ future' = <<>>
         /\ lastSnapshot' = <<takeSnapshot>>

\* the components that read nodes and edges render again: the effect of
\* useValidation is due (useValidation.ts lines 11-12 and 29)
GraphSet ==
    /\ effectDue' = TRUE
    /\ version' = version + 1

\* what an editor operation leaves alone
EditorFrame ==
    UNCHANGED <<pc, input, currentNode, visited, path, highlightNodeIds,
                highlightEdgeIds, result, routing, sourceInboundTag, matched,
                exported, config, createRoutingNodes, imported, reexported,
                paused>>

Operation == pc = "edit" /\ ops < MaxOps /\ ops' = ops + 1

\* the node the palette drop builds (Canvas.tsx lines 130-183); the store
\* takes any node, with or without a serverId
NewNode(id, nodeType, serverId) ==
    [Node(id, nodeType,
          IF nodeType = "device" THEN Absent ELSE <<"n", DecimalDigits[id]>>)
        EXCEPT !.serverId = serverId]

\* part_010 lines 146-149
addNode(node) ==
    /\ pushHistory
    /\ nodes' = Append(nodes, node)
    /\ GraphSet
    /\ UNCHANGED <<edges, servers, selection, timer, timerRef, validation,
                   validatedVersion>>

AddKinds ==
    {"inbound", "routing", "balancer", "outbound-terminal", "outbound-proxy",
     "device"}

AddNode ==
    /\ Operation
    /\ nextId <= MaxNodes
    /\ \E nodeType \in AddKinds, serverId \in {Absent, S1} :
          /\ serverId # Absent => nodeType = "inbound"
          /\ addNode(NewNode(nextId, nodeType, serverId))
    /\ nextId' = nextId + 1
    /\ EditorFrame

\* addEdge of @xyflow/react: the edge id is built from the endpoints, and a
\* connection that exists already is not added again
connectionExists(source, target, es) ==
    \E e \in Range(es) : e.source = source /\ e.target = target

NewEdge(source, target) ==
    [Edge(source, target, Absent) EXCEPT
        !.id = <<source, target>>, !.transport = defaultTransport]

\* part_010 lines 133-144
onConnect(source, target) ==
    /\ pushHistory
    /\ IF connectionExists(source, target, edges)
       THEN UNCHANGED <<edges, effectDue, version>>
       ELSE /\ edges' = Append(edges, NewEdge(source, target))
            /\ GraphSet
    /\ UNCHANGED <<nodes, servers, selection, timer, timerRef, validation,
                   validatedVersion>>

\* Canvas.tsx lines 390-402; a connection the canvas hands over names nodes
\* of the canvas or, when a node went away meanwhile, no node
handleConnect(source, target) ==
    IF ~HasNode(source, nodes) \/ ~HasNode(target, nodes)
    THEN UNCHANGED <<nodes, edges, servers, selection, past, future,
                     lastSnapshot, timer, timerRef, validation, validatedVersion,
                     effectDue, version>>
    ELSE IF ~isValidConnection(getNodeById(source, nodes),
                               getNodeById(target, nodes)).valid
    THEN UNCHANGED <<nodes, edges, servers, selection, past, future,
                     lastSnapshot, timer, timerRef, validation, validatedVersion,
                     effectDue, version>>
    ELSE onConnect(source, target)

NodeIds == {n.id : n \in Range(nodes)}

HandleConnect ==
    /\ Operation
    /\ \E source \in NodeIds \cup {Ghost}, target \in NodeIds :
          handleConnect(source, target)
    /\ UNCHANGED nextId
    /\ EditorFrame

\* part_010 lines 180-187
DeleteNode ==
    /\ Operation
    /\ \E nodeId \in NodeIds :
          /\ pushHistory
          /\ nodes' = SelectSeq(nodes, LAMBDA n : n.id # nodeId)
          /\ edges' = SelectSeq(edges, LAMBDA e :
                          e.source # nodeId /\ e.target # nodeId)
          /\ selection' = selection \ {nodeId}
    /\ GraphSet
    /\ UNCHANGED <<servers, nextId, timer, timerRef, validation, validatedVersion>>
    /\ EditorFrame

\* part_010 lines 189-195
DeleteEdge ==
    /\ Operation
    /\ \E edgeId \in {e.id : e \in Range(edges)} :
          /\ pushHistory
          /\ edges' = SelectSeq(edges, LAMBDA e : e.id # edgeId)
    /\ GraphSet
    /\ UNCHANGED <<nodes, servers, selection, nextId, timer, timerRef, validation,
                   validatedVersion>>
    /\ EditorFrame

\* part_010 lines 211-214
AddServer ==
    /\ Operation
    /\ servers = <<>>
    /\ pushHistory
    /\ servers' = Append(servers, Server(S1))
    /\ UNCHANGED <<nodes, edges, selection, nextId, timer, timerRef, validation,
                   validatedVersion, effectDue, version>>
    /\ EditorFrame

\* part_010 lines 224-233: the nodes of the server go, the edge list stays
DeleteServer ==
    /\ Operation
    /\ \E serverId \in {S1} :
          /\ pushHistory
          /\ servers' = SelectSeq(servers, LAMBDA srv : srv.id # serverId)
          /\ nodes' = SelectSeq(nodes, LAMBDA n : n.serverId # serverId)
          /\ selection' = selection \cap
                {n.id : n \in {m \in Range(nodes) : m.serverId # serverId}}
    /\ GraphSet
    /\ UNCHANGED <<edges, nextId, timer, timerRef, validation, validatedVersion>>
    /\ EditorFrame

\* Canvas.tsx onNodesChange with a select change: part_010 lines 125-127
SelectNode ==
    /\ Operation
    /\ \E nodeId \in NodeIds :
          selection' = IF nodeId \in selection THEN selection \ {nodeId}
                       ELSE selection \cup {nodeId}
    /\ GraphSet
    /\ UNCHANGED <<nodes, edges, servers, past, future, lastSnapshot, nextId,
                   timer, timerRef, validation, validatedVersion>>
    /\ EditorFrame

\* part_010 lines 247-257
DeleteSelectedNodes ==
    /\ Operation
    /\ IF selection = {}
       THEN UNCHANGED <<nodes, edges, selection, past, future, lastSnapshot,
                        effectDue, version>>
       ELSE /\ pushHistory
            /\ nodes' = SelectSeq(nodes, LAMBDA n : n.id \notin selection)
            /\ edges' = SelectSeq(edges, LAMBDA e :
                            e.source \notin selection
                            /\ e.target \notin selection)
            /\ selection' = {}
            /\ GraphSet
    /\ UNCHANGED <<servers, nextId, timer, timerRef, validation, validatedVersion>>
    /\ EditorFrame

\* useStore.setState of a snapshot (useHistoryStore.ts lines 74-80, 95-101)
Restore(snapshot) ==
    /\ nodes' = snapshot.nodes
    /\ selection' = snapshot.selected
    /\ edges' = snapshot.edges
    /\ servers' = snapshot.servers
    /\ lastSnapshot' = <<snapshot>>
    /\ GraphSet

\* useHistoryStore.ts lines 64-83
Undo ==
    /\ Operation
    /\ IF past = <<>>
       THEN UNCHANGED <<nodes, edges, servers, selection, past, future,
                        lastSnapshot, effectDue, version>>
       ELSE /\ past' = SubSeq(past, 1, Len(past) - 1)
            /\ future' = Append(future, takeSnapshot)
            /\ Restore(past[Len(past)])
    /\ UNCHANGED <<nextId, timer, timerRef, validation, validatedVersion>>
    /\ EditorFrame

\* useHistoryStore.ts lines 85-104
Redo ==
    /\ Operation
    /\ IF future = <<>>
       THEN UNCHANGED <<nodes, edges, servers, selection, past, future,
                        lastSnapshot, effectDue, version>>
       ELSE /\ future' = SubSeq(future, 1, Len(future) - 1)
            /\ past' = Append(past, takeSnapshot)
            /\ Restore(future[Len(future)])
    /\ UNCHANGED <<nextId, timer, timerRef, validation, validatedVersion>>
    /\ EditorFrame

\* a project file: the inbound 8 wired to the terminal outbound 9
ProjectFiles ==
    { [nodes |-> <<Node(8, "inbound", TagA),
                   Node(9, "outbound-terminal", <<"t">>)>>,
       edges |-> <<[Edge(8, 9, Absent) EXCEPT !.id = <<8, 9>>]>>,
       servers |-> <<>>] }

\* part_010 lines 289-315: history is paused and cleared, the lists of the
\* file replace those of the store, and resumeHistory takes the snapshot
ImportProject ==
    /\ Operation
    /\ \E data \in ProjectFiles :
          /\ nodes' = data.nodes
          /\ edges' = [i \in 1..Len(data.edges) |->
                          IF data.edges[i].transport # Absent THEN data.edges[i]
                          ELSE [data.edges[i] EXCEPT
                                   !.transport = defaultTransport]]
          /\ servers' = data.servers
          /\ selection' = {}
          /\ past' = <<>>
          /\ future' = <<>>
          /\ lastSnapshot' =
                <<[nodes |-> nodes', edges |-> edges', servers |-> servers',
                   selected |-> selection']>>
    /\ GraphSet
    /\ UNCHANGED <<nextId, timer, timerRef, validation, validatedVersion>>
    /\ EditorFrame

NextEditor ==
    \/ AddNode
    \/ HandleConnect
    \/ DeleteNode
    \/ DeleteEdge
    \/ AddServer
    \/ DeleteServer
    \/ SelectNode
    \/ DeleteSelectedNodes
    \/ Undo
    \/ Redo
    \/ ImportProject

\* part_010 lines 105-121 (createInitialState): the empty project
InitEditor ==
    /\ pc = "edit"
    /\ nodes = <<>>
    /\ edges = <<>>
    /\ input = NoInput
    /\ IdleSim
    /\ IdleDocuments
    /\ IdleEditor
    /\ routing = NoRouting
    /\ sourceInboundTag = Absent
    /\ matched = FALSE
    /\ validation = emptyResult

SpecEditor == InitEditor /\ [][NextEditor]_vars

----------------------------------------------------------------------------
(* Properties of the editor                                                *)

\* the adjacency table of the connection rules, as pairs
LegalPairs ==
    ({"device"} \X {"inbound", "outbound-proxy"})
    \cup ({"inbound", "routing"} \X
            {"routing", "balancer", "outbound-terminal", "outbound-proxy"})
    \cup ({"balancer"} \X {"outbound-terminal", "outbound-proxy"})
    \cup ({"outbound-proxy"} \X {"inbound"})

\* the edges a step adds to the edge list
AddedEdges == {e \in Range(edges') : e \notin Range(edges)}

----------------------------------------------------------------------------
(* Further properties of the validation result                             *)

\* another inbound of the same server listens on the port of n
SharesPortOnServer(n) ==
    \E m \in Range(nodes) :
        /\ m.id # n.id
        /\ m.nodeType = "inbound"
        /\ m.port = n.port
        /\ m.serverId = n.serverId

\* C22 (as stated): an inbound node carries a port-conflict error exactly
\* when another inbound node of the same server uses the same port; inbounds
\* of different servers that listen on the same port are not reported.
C22_PortConflictPerServer ==
    pc = "validated" =>
        \A n \in Range(nodes) :
            n.nodeType = "inbound" =>
                (HasError(n.id, "Port conflict") <=> SharesPortOnServer(n))

\* the case of C22: the inbounds a of server s1 and b of server s2 listen on
\* port 1, no other inbound does, and both carry the port-conflict error
C22_ConflictAcrossServers ==
    /\ pc = "validated"
    /\ Len(nodes) = 3
    /\ \A i \in 1..3 : nodes[i].nodeType = "inbound"
    /\ nodes[1].port = 1 /\ nodes[2].port = 1 /\ nodes[3].port = 2
    /\ nodes[1].serverId = S1 /\ nodes[2].serverId = S2
    /\ HasError(1, "Port conflict") /\ HasError(2, "Port conflict")
    /\ ~HasError(3, "Port conflict")

----------------------------------------------------------------------------
(* Properties of the components on one graph                               *)

\* the inbound nodes without an outgoing edge
InboundsWithoutEdges ==
    {n \in Range(nodes) :
        n.nodeType = "inbound" /\ \A e \in Range(edges) : e.source # n.id}

\* the run has returned and the node it started at is n
StartedAt(n) ==
    /\ pc = "done"
    /\ highlightNodeIds # <<>>
    /\ highlightNodeIds[1] = n.id

\* C23: for an inbound node without outgoing edges the validation result
\* holds the warning 'INPUT node has no outgoing connections' for that node,
\* and a run that starts at that inbound returns success = false with the
\* dead-end explanation, whatever the request.
C23_InboundWithoutEdges ==
    \A n \in InboundsWithoutEdges :
        /\ pc = "validated" =>
              HasWarning(n.id, "INPUT node has no outgoing connections")
        /\ StartedAt(n) =>
              /\ result.returned
              /\ ~result.success
              /\ result.finalOutbound = Absent
              /\ result.explanation = "Dead end"
              /\ highlightNodeIds = <<n.id>>
              /\ highlightEdgeIds = <<>>

\* a request for y.com on udp port 2 has entered at the inbound a, which has
\* no outgoing edge, and the run has returned the dead end
C23_Witness ==
    /\ pc = "done"
    /\ input = [domain |-> DomY, protocol |-> "udp", port |-> 2,
                inboundTag |-> TagA]
    /\ nodes[1] \in InboundsWithoutEdges
    /\ highlightNodeIds = <<1>>
    /\ ~result.success
    /\ result.explanation = "Dead end"

\* the validation of the same graph has stored the warning for the inbound a
C23_WarningStored ==
    /\ pc = "validated"
    /\ nodes[1] \in InboundsWithoutEdges
    /\ HasWarning(1, "INPUT node has no outgoing connections")

----------------------------------------------------------------------------
(* Specification SpecDebounce: graph edits and the validation hook         *)
(* (hooks/useValidation.ts)                                                *)

\* the timeout the effect sets: its closure holds the node and edge lists of
\* the render
Timeout == [nodes |-> nodes, edges |-> edges, version |-> version]

\* the effect without clearTimeout
RunEffect_KeepsOldTimeout ==
    /\ pc = "edit"
    /\ effectDue
    /\ timer' = timer \cup {Timeout}
    /\ timerRef' = <<Timeout>>
    /\ effectDue' = FALSE
    /\ UNCHANGED <<graphVars, pc, documentVars, past, future, lastSnapshot,
                   paused, selection, nextId, ops, version, validatedVersion>>

\* lines 16-29: the effect that runs after a render with new nodes or edges
\* clears the timeout of timerRef and sets a new one
RunEffect ==
    /\ pc = "edit"
    /\ effectDue
    /\ timer' = (timer \ Range(timerRef)) \cup {Timeout}
    /\ timerRef' = <<Timeout>>
    /\ effectDue' = FALSE
    /\ UNCHANGED <<graphVars, pc, documentVars, past, future, lastSnapshot,
                   paused, selection, nextId, ops, version, validatedVersion>>

\* lines 18-26: a pending timeout fires; setResult stores the result of
\* validateGraph on the lists of the closure, and the empty result when the
\* call raises
Fire ==
    /\ pc = "edit"
    /\ \E timeout \in timer :
          /\ validation' =
                IF validateConfigThrows(timeout.nodes) THEN emptyResult
                ELSE validateGraph(timeout.nodes, timeout.edges)
          /\ validatedVersion' = timeout.version
          /\ timer' = timer \ {timeout}
    /\ UNCHANGED <<nodes, edges, input, currentNode, visited, path,
                   highlightNodeIds, highlightEdgeIds, result, routing,
                   sourceInboundTag, matched, pc, documentVars, past, future,
                   lastSnapshot, paused, selection, nextId, ops, timerRef,
                   effectDue, version>>

\* the graph edits of the session, MaxEdits of them
Edit ==
    /\ ops < MaxEdits
    /\ \/ AddNode
       \/ HandleConnect
       \/ DeleteNode
       \/ Undo

NextDebounce ==
    \/ Edit
    \/ RunEffect
    \/ Fire

\* the hook is mounted on the empty project: its first effect is due
InitDebounce ==
    /\ pc = "edit"
    /\ nodes = <<>>
    /\ edges = <<>>
    /\ input = NoInput
    /\ IdleSim
    /\ IdleDocuments
    /\ IdleHistory
    /\ timer = {}
    /\ timerRef = <<>>
    /\ effectDue = TRUE
    /\ version = 0
    /\ validatedVersion = 0
    /\ routing = NoRouting
    /\ sourceInboundTag = Absent
    /\ matched = FALSE
    /\ validation = emptyResult

\* React runs the effect of a committed render, and a timeout that is not
\* cleared fires
SpecDebounce ==
    /\ InitDebounce
    /\ [][NextDebounce]_vars
    /\ WF_vars(RunEffect)
    /\ WF_vars(Fire)

\* C24: at most one validation run is pending, a result computed from an
\* older graph never replaces a result computed from a newer one, and once
\* the edits stop the stored result is that of validateGraph on the latest
\* nodes and edges.
C24_DebouncedValidation ==
    /\ [](Cardinality(timer) <= 1)
    /\ [][validatedVersion' >= validatedVersion]_vars
    /\ <>[](validation = validateGraph(nodes, edges))

\* two edits have been made and their effect has run: the one pending
\* timeout holds the two nodes of the store, and the stored result is still
\* the one of the empty project
C24_Witness ==
    /\ pc = "edit"
    /\ Len(nodes) = 2
    /\ version = 2
    /\ validatedVersion = 0
    /\ ~effectDue
    /\ timer = {Timeout}
    /\ timerRef = <<Timeout>>

----------------------------------------------------------------------------
(* Properties of the cycle report                                          *)

\* the cycle errors of the stored result
CycleErrors ==
    SelectSeq(validation.errors, LAMBDA e : e.message = "Cycle detected")

\* C25 (as stated): a cycle is reported as one error, on the node the closing
\* edge returns to: every cycle error sits on a node of a directed cycle of
\* the traversal graph, no node carries two of them, and a node that lies on
\* no directed cycle carries none.
C25_CycleErrorOnReenteredNode ==
    pc = "validated" =>
        /\ \A i \in 1..Len(CycleErrors) :
              OnCycle(CycleErrors[i].nodeId, TraversalEdges)
        /\ \A i, j \in 1..Len(CycleErrors) :
              CycleErrors[i].nodeId = CycleErrors[j].nodeId => i = j

\* the case of C25: routing node 1 leads to routing node 2, which forms a
\* ring with routing node 3; node 1 lies on no cycle and carries a cycle
\* error, as the nodes 2 and 3 do
C25_ErrorOffTheCycle ==
    /\ pc = "validated"
    /\ \A i \in 1..3 : nodes[i].nodeType = "routing"
    /\ TraversalEdges = {<<1, 2>>, <<2, 3>>, <<3, 2>>}
    /\ ~OnCycle(1, TraversalEdges)
    /\ {CycleErrors[i].nodeId : i \in 1..Len(CycleErrors)} = {1, 2, 3}

\* validateGraph reports a cycle error for the graph of the store
ValidatorReportsCycle ==
    \E e \in Range(validateGraph(nodes, edges).errors) :
        e.message = "Cycle detected"

\* C26 (as stated): when validateGraph reports no cycle error for a graph, no
\* run of runSimulation on that graph ends with the failure 'Traffic entered
\* a cycle'.
C26_ValidatorAndSimulatorAgreeOnCycles ==
    CycleResult => ValidatorReportsCycle

\* the case of C26: the walk went from the inbound a to the proxy outbound
\* px, on to the inbound b and back to a, and ended with the cycle failure;
\* validateGraph leaves the edge px -> b out and reports no cycle
C26_ProxyChainCycle ==
    /\ CycleResult
    /\ highlightNodeIds = <<1, 6, 2>>
    /\ ~ValidatorReportsCycle
    /\ ~HasDirectedCycle(TraversalEdges)

----------------------------------------------------------------------------
(* Properties of the SimulationResult record                               *)

\* runSimulation has returned a SimulationResult
ResultReturned == pc = "done" /\ result.returned

\* the node the walk stands at after it left the i-th highlighted node: the
\* next highlighted node, or the re-entered node of a run that ends in a cycle
WalkAfter(i) ==
    IF i < Len(highlightNodeIds) THEN {highlightNodeIds[i + 1]}
    ELSE IF CycleResult THEN {path[Len(path)].nodeId}
    ELSE {}

HighlightedEdge(i) == CHOOSE e \in Range(edges) : e.id = highlightEdgeIds[i]

\* the i-th highlighted edge goes from the i-th highlighted node to the next
\* node of the walk
ChainLink(i) ==
    /\ i <= Len(highlightNodeIds)
    /\ \E e \in Range(edges) : e.id = highlightEdgeIds[i]
    /\ HighlightedEdge(i).source = highlightNodeIds[i]
    /\ HighlightedEdge(i).target \in WalkAfter(i)

\* C27 (as stated): in every SimulationResult highlightNodeIds lists the
\* visited nodes in walk order without duplicates; path has one step per
\* visited node, plus one when the run ends in a cycle; the i-th highlighted
\* edge goes from the i-th highlighted node to the next node of the walk; on
\* success there is one edge fewer than nodes; success is true only if the
\* last path step is an outbound-terminal or outbound-proxy node; and
\* finalOutbound is non-null exactly when success is true.
C27_ResultRecordInvariants ==
    ResultReturned =>
        /\ NoDuplicates(highlightNodeIds)
        /\ Range(highlightNodeIds) = visited
        /\ Len(path) = Len(highlightNodeIds) + (IF CycleResult THEN 1 ELSE 0)
        /\ \A i \in Steps : path[i].nodeId = highlightNodeIds[i]
        /\ \A i \in 1..Len(highlightEdgeIds) : ChainLink(i)
        /\ result.success =>
              /\ Len(highlightEdgeIds) = Len(highlightNodeIds) - 1
              /\ path # <<>>
              /\ path[Len(path)].nodeType \in
                     {"outbound-terminal", "outbound-proxy"}
        /\ (result.finalOutbound # Absent) <=> result.success

\* the last highlighted edge of a run may point to an id that is no node of
\* the list: the walk has no next node and the run ends unexpectedly
DanglingLink(i) ==
    /\ i = Len(highlightNodeIds)
    /\ \E e \in Range(edges) : e.id = highlightEdgeIds[i]
    /\ HighlightedEdge(i).source = highlightNodeIds[i]
    /\ ~HasNode(HighlightedEdge(i).target, nodes)
    /\ ~result.success
    /\ result.explanation = "Simulation ended unexpectedly"

\* C27 (amended): as C27, where the i-th highlighted edge goes from the i-th
\* highlighted node to the next node of the walk or, as the last edge of a
\* run that ends unexpectedly, to an id that no node of the list carries.
C27_ResultRecordInvariantsAmended ==
    ResultReturned =>
        /\ NoDuplicates(highlightNodeIds)
        /\ Range(highlightNodeIds) = visited
        /\ Len(path) = Len(highlightNodeIds) + (IF CycleResult THEN 1 ELSE 0)
        /\ \A i \in Steps : path[i].nodeId = highlightNodeIds[i]
        /\ \A i \in 1..Len(highlightEdgeIds) : ChainLink(i) \/ DanglingLink(i)
        /\ result.success =>
              /\ Len(highlightEdgeIds) = Len(highlightNodeIds) - 1
              /\ path # <<>>
              /\ path[Len(path)].nodeType \in
                     {"outbound-terminal", "outbound-proxy"}
        /\ (result.finalOutbound # Absent) <=> result.success

\* a run over two nodes or more has returned after it took an edge to an id
\* that no node of the list carries
C27_Witness ==
    /\ ResultReturned
    /\ Len(highlightNodeIds) >= 2
    /\ Len(highlightEdgeIds) = Len(highlightNodeIds)
    /\ DanglingLink(Len(highlightEdgeIds))
    /\ \A i \in 1..(Len(highlightEdgeIds) - 1) : ChainLink(i)

\* a run over three nodes or more has returned with success
C27_SuccessWitness ==
    /\ ResultReturned
    /\ result.success
    /\ Len(highlightNodeIds) >= 3

----------------------------------------------------------------------------
(* Export against the simulation walk                                      *)

\* the walk left the inbound at step i through an edge to the node target,
\* an outbound or a balancer that carries the inbound's serverId
LeftDirect(i, target) ==
    /\ i <= Len(highlightEdgeIds)
    /\ NodeAt(i).nodeType = "inbound"
    /\ HasNode(HighlightedEdge(i).target, nodes)
    /\ target = getNodeById(HighlightedEdge(i).target, nodes)
    /\ target.nodeType \in OutboundKinds \cup {"balancer"}
    /\ target.serverId = NodeAt(i).serverId

\* a document of exportConfig for the group of the inbound holds a rule from
\* the inbound's tag to the target's tag
ExportedDirectRule(inbound, target) ==
    \E doc \in Range(exportConfig(nodes, edges, servers)) :
        /\ \E k \in 1..Len(doc.config.inbounds) :
              doc.config.inbounds[k].tag = inbound.tag
        /\ \E r \in Range(doc.config.rules) :
              /\ inbound.tag \in Range(r.inboundTag)
              /\ r.outboundTag = target.tag \/ r.balancerTag = target.tag

\* C28 (as stated): whenever the simulator leaves an inbound through a
\* same-group edge to an outbound or a balancer, the document exported for
\* that group holds a rule whose inboundTag holds the inbound's tag and whose
\* outboundTag or balancerTag is the target's tag.
C28_ExportHasDirectRule ==
    \A i \in Steps : \A target \in Range(nodes) :
        LeftDirect(i, target) => ExportedDirectRule(NodeAt(i), target)

\* the case of C28: the walk left the inbound a through its edge to the
\* balancer lb, and no document holds a rule from a to lb
C28_DirectBalancerEdge ==
    /\ Len(highlightEdgeIds) >= 1
    /\ LeftDirect(1, getNodeById(5, nodes))
    /\ ~ExportedDirectRule(NodeAt(1), getNodeById(5, nodes))

----------------------------------------------------------------------------
(* Properties of the editor history                                        *)

\* a step of one of the mutations that call pushHistory
TrackedMutation ==
    \/ AddNode
    \/ HandleConnect
    \/ DeleteNode
    \/ DeleteEdge
    \/ AddServer
    \/ DeleteServer

GraphChanged == <<nodes, edges, servers>>' # <<nodes, edges, servers>>

\* undo pops the last checkpoint of past and sets the store to it: after the
\* step an undo gives back the lists the store held before the step
UndoRestoresPrevious ==
    /\ past' # <<>>
    /\ past'[Len(past')].nodes = nodes
    /\ past'[Len(past')].selected = selection
    /\ past'[Len(past')].edges = edges
    /\ past'[Len(past')].servers = servers

\* C29 (as stated): after any sequence of editor operations, undo, redo and
\* project import included, a history-tracked mutation that changes the graph
\* leaves the redo stack empty, and an undo issued right after it restores
\* nodes, edges and servers to their values just before the mutation.
C29_MutationIsUndoable ==
    [][(TrackedMutation /\ GraphChanged) =>
          (future' = <<>> /\ UndoRestoresPrevious)]_vars

\* the case of C29: a node was added, the addition undone and another node
\* added: the redo stack still holds the first node and past holds no
\* checkpoint an undo could go back to
C29_MutationAfterUndo ==
    /\ ops = 3
    /\ Len(nodes) = 1
    /\ nodes[1].id = 2
    /\ past = <<>>
    /\ future # <<>>

\* C30 (as stated): after any sequence of store operations from the empty
\* project, every edge of the store has a source and a target that are ids
\* of nodes of the store.
C30_EdgesJoinStoreNodes ==
    pc = "edit" =>
        \A e \in Range(edges) : e.source \in NodeIds /\ e.target \in NodeIds

\* the case of C30: the inbound 1 of server s1 was wired to the node 2 and
\* the server deleted: the node 1 is gone and its edge is still in the store
C30_EdgeOfDeletedServerNode ==
    /\ pc = "edit"
    /\ NodeIds = {2}
    /\ \E e \in Range(edges) : e.source = 1 /\ e.target = 2
    /\ past # <<>>
    /\ past[Len(past)].nodes[1].serverId = S1

====
